---- MODULE Spec2Model ----
(***************************************************************************)
(* Model of the diff-parsing and review pipeline of ai-code-reviewer-mcp:  *)
(* CodeReviewer.parseDiff / filterFiles / analyzeDiff (code-reviewer.ts)   *)
(* and CodeAnalyzer (code-analyzer.ts).                                    *)
(*                                                                         *)
(* Text is modelled by TLA+ strings.  A diff text is held as the sequence  *)
(* of its lines, i.e. as the value of diff.split('\n'); the lines hold no  *)
(* '\r'.  Characters outside ASCII, and the backquote, are written as     *)
(* ASCII tags.                                                             *)
(***************************************************************************)
EXTENDS Integers, Sequences, FiniteSets, TLC

VARIABLES
    diff,            \* the diff text handed to parseDiff, as its lines
    options,         \* ReviewOptions: fileExtensions, excludePatterns, reviewPrompt
    pc,              \* position of the running operation
    hunks,           \* parseDiff: the blocks split off at "diff --git"
    hunkIdx,         \* parseDiff: index of the block being scanned
    lineIdx,         \* parseDiff: index of the next line of the block
    cursor,          \* parseDiff: additions, deletions, changes, currentLineOld/New
    files,           \* parseDiff: the FileChange[] built so far / parsedDiff
    filteredFiles,   \* analyzeDiff: result of filterFiles
    fileIdx,         \* analyzeDiff: index of the next file of the for-loop
    issues,          \* analyzeDiff: issues collected so far
    totals,          \* analyzeDiff: totalLinesAdded, totalLinesRemoved
    result,          \* analyzeDiff: the ReviewResult returned (or NoResult)
    git,             \* CodeReviewer.git: the repository the one client is bound to
    requests,        \* the tool calls in flight: arguments, position, VCS calls, response
    templates,       \* ReviewPromptManager.templates: name -> prompt text
    returned,        \* the value the last call on the template store returned
    snippet,         \* the last call of getCodeContext: its arguments and its text
    awaited          \* analyzeDiff: the value of the promise it awaits

vars == <<diff, options, pc, hunks, hunkIdx, lineIdx, cursor, files,
          filteredFiles, fileIdx, issues, totals, result,
          git, requests, templates, returned, snippet, awaited>>

\* no call of getCodeContext yet
NoSnippet == [file |-> 0, target |-> 0, content |-> "", size |-> 0, text |-> ""]

\* analyzeDiff awaits nothing
NoAwaited == [fileIssues |-> <<>>, summary |-> ""]

\* the state of the server: the shared client, the tool calls, the template store
serverVars == <<git, requests, templates, returned>>

-----------------------------------------------------------------------------
(* String primitives of JavaScript, on TLA+ strings.                       *)

Min(a, b) == IF a < b THEN a ELSE b
Max(a, b) == IF a > b THEN a ELSE b

\* s.charAt(i-1): the i-th character (1-based), "" when out of range
At(s, i) == IF i >= 1 /\ i <= Len(s) THEN SubSeq(s, i, i) ELSE ""

\* s.substring(i-1, j): characters i..j (1-based, inclusive), clamped
Slice(s, i, j) ==
    IF Max(i, 1) > Min(j, Len(s)) THEN "" ELSE SubSeq(s, Max(i, 1), Min(j, Len(s)))

startsWith(s, p) == Len(s) >= Len(p) /\ SubSeq(s, 1, Len(p)) = p

endsWith(s, p) == Len(s) >= Len(p) /\ SubSeq(s, Len(s) - Len(p) + 1, Len(s)) = p

includes(s, p) ==
    \E i \in 1..(Len(s) - Len(p) + 1) : SubSeq(s, i, i + Len(p) - 1) = p

\* indexOf: first 1-based position of p in s at or after from, 0 when absent
indexOfFrom(s, p, from) ==
    LET hits == {i \in Max(from, 1)..(Len(s) - Len(p) + 1) : SubSeq(s, i, i + Len(p) - 1) = p}
    IN  IF hits = {} THEN 0 ELSE CHOOSE i \in hits : \A k \in hits : i <= k

UpperChars == "ABCDEFGHIJKLMNOPQRSTUVWXYZ"
LowerChars == "abcdefghijklmnopqrstuvwxyz"

LowerChar(c) ==
    LET k == indexOfFrom(UpperChars, c, 1)
    IN  IF Len(c) = 1 /\ k > 0 THEN SubSeq(LowerChars, k, k) ELSE c

RECURSIVE toLowerCase(_)
toLowerCase(s) ==
    IF Len(s) <= 1 THEN LowerChar(s)
    ELSE toLowerCase(SubSeq(s, 1, Len(s) \div 2))
         \o toLowerCase(SubSeq(s, Len(s) \div 2 + 1, Len(s)))

\* the vertical tab (U+000B), which has no escape in a string: the
\* character itself stands between the quotes
VerticalTab == ""

\* the ASCII white space of String.prototype.trim and of the regex class \s
\* (white space outside ASCII is outside the alphabet of the inputs)
IsSpace(c) == c \in {" ", "\t", "\n", "\r", "\f", VerticalTab}

IsDigit(c) == Len(c) = 1 /\ includes("0123456789", c)

RECURSIVE trimStart(_)
trimStart(s) ==
    IF Len(s) > 0 /\ IsSpace(SubSeq(s, 1, 1)) THEN trimStart(SubSeq(s, 2, Len(s))) ELSE s

RECURSIVE trimEnd(_)
trimEnd(s) ==
    IF Len(s) > 0 /\ IsSpace(SubSeq(s, Len(s), Len(s)))
    THEN trimEnd(SubSeq(s, 1, Len(s) - 1)) ELSE s

trim(s) == trimEnd(trimStart(s))

DigitValue(c) == indexOfFrom("0123456789", c, 1) - 1

\* parseInt of a non-empty run of decimal digits
RECURSIVE parseInt(_)
parseInt(s) ==
    IF Len(s) = 0 THEN 0
    ELSE 10 * parseInt(SubSeq(s, 1, Len(s) - 1)) + DigitValue(SubSeq(s, Len(s), Len(s)))

\* String(n) / template-literal interpolation of a non-negative integer
RECURSIVE numToString(_)
numToString(n) ==
    IF n < 10 THEN SubSeq("0123456789", n + 1, n + 1)
    ELSE numToString(n \div 10) \o SubSeq("0123456789", (n % 10) + 1, (n % 10) + 1)

\* first position at or after i that holds no decimal digit (end of \d*)
RECURSIVE DigitsEnd(_, _)
DigitsEnd(s, i) == IF IsDigit(At(s, i)) THEN DigitsEnd(s, i + 1) ELSE i

-----------------------------------------------------------------------------
(* CodeReviewer.parseDiff                                                  *)

\* The text of a diff is the sequence of its lines joined by "\n"; the
\* characters of a string are ASCII, so of the line terminators of the
\* language a text holds "\n" and "\r" only.

\* the positions of a line where /^diff --git/m matches: ^ stands at the
\* start of the line, which follows the start of the text or a "\n", and
\* after every "\r"
lineBoundaries(line) ==
    {p \in 1..Len(line) :
        /\ p = 1 \/ At(line, p - 1) = "\r"
        /\ Slice(line, p, p + 9) = "diff --git"}

\* diff.split(/^diff --git/m): the matches <<line, position>> in the text
BlockStarts(d) == UNION {{<<i, p>> : p \in lineBoundaries(d[i])} : i \in 1..Len(d)}

\* the order of the matches in the text
startsBefore(a, b) == a[1] < b[1] \/ (a[1] = b[1] /\ a[2] < b[2])

\* .slice(1) then hunk.split('\n'): the lines of each block.  The first is
\* the rest of the header line; the last is what stands left of the next
\* match in its line: the empty string when the next block begins a line,
\* and a text that ends with "\r" when it begins after a carriage return
splitBlocks(d) ==
    LET starts == BlockStarts(d)
        nth[k \in 1..Cardinality(starts)] ==
            CHOOSE a \in starts : Cardinality({b \in starts : startsBefore(b, a)}) = k - 1
        block(k) ==
            LET s == nth[k]
                rest == Slice(d[s[1]], s[2] + 10, Len(d[s[1]]))
            IN  IF k = Cardinality(starts)
                THEN <<rest>> \o SubSeq(d, s[1] + 1, Len(d))
                ELSE IF nth[k + 1][1] = s[1]
                THEN <<Slice(d[s[1]], s[2] + 10, nth[k + 1][2] - 1)>>
                ELSE <<rest>> \o SubSeq(d, s[1] + 1, nth[k + 1][1] - 1)
                     \o <<Slice(d[nth[k + 1][1]], 1, nth[k + 1][2] - 1)>>
    IN  [k \in 1..Cardinality(starts) |-> block(k)]

\* header.match(/^diff --git a\/(.*?) b\/(.*?)$/) with header = 'diff --git' + lines[0]
fileMatch(lines) ==
    LET header == "diff --git" \o lines[1]
        sep == indexOfFrom(header, " b/", 14)
    IN  IF startsWith(header, "diff --git a/") /\ sep > 0 /\ ~includes(header, "\r")
        THEN [ok |-> TRUE,
              oldFileName |-> Slice(header, 14, sep - 1),
              fileName |-> Slice(header, sep + 3, Len(header))]
        ELSE [ok |-> FALSE, oldFileName |-> "", fileName |-> ""]

\* the pattern /@@ -(\d+),?\d* \+(\d+),?\d* @@/ tried at position i of line
hunkMatchAt(line, i) ==
    LET p1 == i + 4
        e1 == DigitsEnd(line, p1)
        p2 == IF At(line, e1) = "," THEN e1 + 1 ELSE e1
        e2 == DigitsEnd(line, p2)
        p3 == e2 + 2
        e3 == DigitsEnd(line, p3)
        p4 == IF At(line, e3) = "," THEN e3 + 1 ELSE e3
        e4 == DigitsEnd(line, p4)
    IN  IF /\ Slice(line, i, i + 3) = "@@ -"
           /\ e1 > p1
           /\ Slice(line, e2, e2 + 1) = " +"
           /\ e3 > p3
           /\ Slice(line, e4, e4 + 2) = " @@"
        THEN [ok |-> TRUE,
              old |-> parseInt(Slice(line, p1, e1 - 1)),
              new |-> parseInt(Slice(line, p3, e3 - 1))]
        ELSE [ok |-> FALSE, old |-> 0, new |-> 0]

\* line.match(...): the leftmost match
hunkMatch(line) ==
    LET at == {i \in 1..Len(line) : hunkMatchAt(line, i).ok}
    IN  IF at = {} THEN [ok |-> FALSE, old |-> 0, new |-> 0]
        ELSE hunkMatchAt(line, CHOOSE i \in at : \A k \in at : i <= k)

\* the four branches of the lines.forEach callback
isHunkLine(line) == startsWith(line, "@@")

isAdditionLine(line) ==
    ~isHunkLine(line) /\ startsWith(line, "+") /\ ~startsWith(line, "+++")

isDeletionLine(line) ==
    ~isHunkLine(line) /\ ~isAdditionLine(line)
    /\ startsWith(line, "-") /\ ~startsWith(line, "---")

isContextLine(line) ==
    /\ ~isHunkLine(line) /\ ~isAdditionLine(line) /\ ~isDeletionLine(line)
    /\ ~startsWith(line, "\\") /\ ~startsWith(line, "diff")
    /\ ~startsWith(line, "index") /\ ~startsWith(line, "+++")
    /\ ~startsWith(line, "---") /\ ~startsWith(line, "@@")
    /\ trim(line) # ""

LineChange(t, n, c) == [type |-> t, lineNumber |-> n, content |-> c]

\* let additions = 0 ... let currentLineNew = 0
InitCursor ==
    [additions |-> 0, deletions |-> 0, changes |-> <<>>,
     currentLineOld |-> 0, currentLineNew |-> 0]

\* if (line.startsWith('@@')): the counters are set from a header that matches
hunkStep(c, line) ==
    LET m == hunkMatch(line)
    IN  IF m.ok THEN [c EXCEPT !.currentLineOld = m.old, !.currentLineNew = m.new]
        ELSE c

additionStep_noCount(c, line) ==
    [c EXCEPT !.changes = Append(@, LineChange("addition", c.currentLineNew,
                                               Slice(line, 2, Len(line)))),
              !.currentLineNew = @ + 1]

additionStep_noAdvance(c, line) ==
    [c EXCEPT !.additions = @ + 1,
              !.changes = Append(@, LineChange("addition", c.currentLineNew,
                                               Slice(line, 2, Len(line))))]

\* else if (line.startsWith('+') && !line.startsWith('+++'))
additionStep(c, line) ==
    [c EXCEPT !.additions = @ + 1,
              !.changes = Append(@, LineChange("addition", c.currentLineNew,
                                               Slice(line, 2, Len(line)))),
              !.currentLineNew = @ + 1]

\* else if (line.startsWith('-') && !line.startsWith('---'))
deletionStep(c, line) ==
    [c EXCEPT !.deletions = @ + 1,
              !.changes = Append(@, LineChange("deletion", c.currentLineOld,
                                               Slice(line, 2, Len(line)))),
              !.currentLineOld = @ + 1]

\* else if (... && line.trim() !== '')
contextStep(c, line) ==
    [c EXCEPT !.changes = Append(@, LineChange("context", c.currentLineOld,
                    IF startsWith(line, " ") THEN Slice(line, 2, Len(line)) ELSE line)),
              !.currentLineOld = @ + 1,
              !.currentLineNew = @ + 1]

\* one call of the lines.forEach callback
parseLine(c, line) ==
    IF isHunkLine(line) THEN hunkStep(c, line)
    ELSE IF isAdditionLine(line) THEN additionStep(c, line)
    ELSE IF isDeletionLine(line) THEN deletionStep(c, line)
    ELSE IF isContextLine(line) THEN contextStep(c, line)
    ELSE c

RECURSIVE parseLines(_, _, _)
parseLines(c, lines, i) ==
    IF i > Len(lines) THEN c ELSE parseLines(parseLine(c, lines[i]), lines, i + 1)

\* files.push({...}) for a block whose header matched
FileChange(lines, c) ==
    LET m == fileMatch(lines)
    IN  [fileName |-> m.fileName,
         oldFileName |-> m.oldFileName,
         isDeleted |-> \E i \in 1..Len(lines) : startsWith(lines[i], "deleted file mode"),
         isNewFile |-> \E i \in 1..Len(lines) : startsWith(lines[i], "new file mode"),
         additions |-> c.additions,
         deletions |-> c.deletions,
         changes |-> c.changes,
         rawDiff |-> <<"diff --git" \o lines[1]>> \o SubSeq(lines, 2, Len(lines))]

\* the hunks.forEach callback on one block
parseBlock(fs, lines) ==
    IF ~fileMatch(lines).ok THEN fs
    ELSE Append(fs, FileChange(lines, parseLines(InitCursor, lines, 1)))

RECURSIVE parseBlocks(_, _, _)
parseBlocks(fs, bs, k) ==
    IF k > Len(bs) THEN fs ELSE parseBlocks(parseBlock(fs, bs[k]), bs, k + 1)

parseDiff(d) == parseBlocks(<<>>, splitBlocks(d), 1)

-----------------------------------------------------------------------------
(* CodeReviewer.filterFiles                                                *)

\* an optional argument: absent (undefined) or a value
Undefined == [defined |-> FALSE, value |-> <<>>]
Some(v) == [defined |-> TRUE, value |-> v]

\* extensions.some(ext => file.fileName.toLowerCase().endsWith(ext.toLowerCase()))
hasValidExtension(fileName, extensions) ==
    \E i \in 1..Len(extensions) :
        endsWith(toLowerCase(fileName), toLowerCase(extensions[i]))

\* excludePatterns.some(pattern => file.fileName.toLowerCase().includes(pattern.toLowerCase()))
shouldExclude(fileName, excludePatterns) ==
    \E i \in 1..Len(excludePatterns) :
        includes(toLowerCase(fileName), toLowerCase(excludePatterns[i]))

keepFile_caseSensitive(file, extensions, excludePatterns) ==
    IF extensions.defined /\ Len(extensions.value) > 0
          /\ ~\E i \in 1..Len(extensions.value) : endsWith(file.fileName, extensions.value[i])
    THEN FALSE
    ELSE IF excludePatterns.defined /\ Len(excludePatterns.value) > 0
          /\ \E i \in 1..Len(excludePatterns.value) : includes(file.fileName, excludePatterns.value[i])
    THEN FALSE
    ELSE TRUE

\* the callback of files.filter
keepFile(file, extensions, excludePatterns) ==
    IF extensions.defined /\ Len(extensions.value) > 0
          /\ ~hasValidExtension(file.fileName, extensions.value)
    THEN FALSE
    ELSE IF excludePatterns.defined /\ Len(excludePatterns.value) > 0
          /\ shouldExclude(file.fileName, excludePatterns.value)
    THEN FALSE
    ELSE TRUE

RECURSIVE filterFrom(_, _, _, _)
filterFrom(fs, i, extensions, excludePatterns) ==
    IF i > Len(fs) THEN <<>>
    ELSE (IF keepFile(fs[i], extensions, excludePatterns) THEN <<fs[i]>> ELSE <<>>)
         \o filterFrom(fs, i + 1, extensions, excludePatterns)

filterFiles(fs, extensions, excludePatterns) == filterFrom(fs, 1, extensions, excludePatterns)

-----------------------------------------------------------------------------
(* ReviewPromptManager: the template store.  A prompt text of the source   *)
(* is a template literal of some fifteen lines; it is held here by its     *)
(* first line.                                                             *)

\* the value of a property that is not set, of a variable never assigned
undefined == "<undefined>"

\* the initializer of ReviewPromptManager.templates
InitialTemplates ==
    [name \in {"comprehensive", "security", "performance", "maintainability",
               "bestPractices", "bugPrevention", "api", "database", "logicalBugs",
               "documentation"} |->
        CASE name = "comprehensive" -> "Perform a comprehensive code review focusing on:"
          [] name = "security" -> "Focus specifically on security aspects:"
          [] name = "performance" -> "Analyze code changes for performance impact:"
          [] name = "maintainability" -> "Review code for long-term maintainability:"
          [] name = "bestPractices" -> "Check adherence to coding best practices:"
          [] name = "bugPrevention" -> "Look for potential bugs and logic errors:"
          [] name = "api" -> "Review API-related changes:"
          [] name = "database" -> "Analyze database-related code changes:"
          [] name = "logicalBugs" -> "Focus on detecting logical bugs and runtime errors:"
          [] name = "documentation" -> "Analyze documentation and JSDoc compliance:"]

\* the properties an object literal inherits from Object.prototype
PrototypeNames ==
    {"constructor", "toString", "toLocaleString", "valueOf", "hasOwnProperty",
     "isPrototypeOf", "propertyIsEnumerable", "__proto__", "__defineGetter__",
     "__defineSetter__", "__lookupGetter__", "__lookupSetter__"}

\* the value of an inherited property: a function, or Object.prototype
\* itself; never a string, and truthy
inheritedProperty(name) ==
    IF name = "__proto__" THEN "<Object.prototype>"
    ELSE IF name = "constructor" THEN "<function Object>"
    ELSE "<function " \o name \o ">"

\* this.templates[name]: the own property, else the inherited one
lookupTemplate(store, name) ==
    IF name \in DOMAIN store THEN store[name]
    ELSE IF name \in PrototypeNames THEN inheritedProperty(name)
    ELSE undefined

\* the truth value of a string or undefined in a condition or before ||
truthy(value) == value # undefined /\ value # ""

\* listTemplates(): the list written out in the source
listTemplates ==
    <<[name |-> "comprehensive", description |-> "Complete code review covering all aspects"],
      [name |-> "security", description |-> "Security-focused review for vulnerabilities"],
      [name |-> "performance", description |-> "Performance impact analysis"],
      [name |-> "maintainability", description |-> "Long-term maintainability assessment"],
      [name |-> "bestPractices", description |-> "Coding standards and best practices"],
      [name |-> "bugPrevention", description |-> "Logic errors and potential bugs"],
      [name |-> "logicalBugs",
       description |-> "Advanced logical bug detection and runtime errors"],
      [name |-> "documentation",
       description |-> "JSDoc and documentation compliance analysis"],
      [name |-> "api", description |-> "API design and implementation review"],
      [name |-> "database", description |-> "Database operations and design review"]>>

\* this.templates[name] || this.templates['comprehensive']
getTemplate(store, name) ==
    IF truthy(lookupTemplate(store, name)) THEN lookupTemplate(store, name)
    ELSE lookupTemplate(store, "comprehensive")

\* this.templates[name] = prompt; a string assigned to __proto__ is ignored
addTemplate(store, name, prompt) ==
    IF name = "__proto__" THEN store
    ELSE [n \in DOMAIN store \cup {name} |-> IF n = name THEN prompt ELSE store[n]]

\* removeTemplate: the store afterwards and the value returned
removeTemplate(store, name) ==
    IF truthy(lookupTemplate(store, name))
    THEN [store |-> [n \in DOMAIN store \ {name} |-> store[n]], value |-> TRUE]
    ELSE [store |-> store, value |-> FALSE]

\* updateTemplate: the store afterwards and the value returned
updateTemplate(store, name, prompt) ==
    IF truthy(lookupTemplate(store, name))
    THEN [store |-> addTemplate(store, name, prompt), value |-> TRUE]
    ELSE [store |-> store, value |-> FALSE]

\* no client yet, no tool call, the store as constructed, nothing returned
NoGit == undefined
NoReturn == [op |-> "none", name |-> "", value |-> undefined]

ServerIdle ==
    /\ git = NoGit
    /\ requests = <<>>
    /\ templates = InitialTemplates
    /\ returned = NoReturn

-----------------------------------------------------------------------------
(* Regular expressions, as far as the analyzer's patterns use them.  A     *)
(* pattern is a tree; Run gives the positions a match of the pattern can   *)
(* end at when it starts at one of the positions P.  The analyzer only     *)
(* asks whether a pattern matches somewhere, so the order in which the     *)
(* alternatives are tried does not matter.                                 *)

CharsOf(str) == {SubSeq(str, i, i) : i \in 1..Len(str)}

WordChars == CharsOf("abcdefghijklmnopqrstuvwxyzABCDEFGHIJKLMNOPQRSTUVWXYZ0123456789_")
SpaceChars == {" ", "\t", "\n", "\r", "\f", VerticalTab}
DigitChars == CharsOf("0123456789")
LineBreaks == {"\n", "\r"}

Lit(str) == <<"lit", str>>
Cls(chars) == <<"cls", chars, FALSE>>
NotCls(chars) == <<"cls", chars, TRUE>>
Star(cls) == <<"star", cls>>
Plus(cls) == <<"plus", cls>>
Opt(re) == <<"opt", re>>
Cat(res) == <<"cat", res>>
Alt(res) == <<"alt", res>>
Bol == <<"bol">>
WordB == <<"wordb">>

AnyW == Cls(WordChars)
AnyS == Cls(SpaceChars)
AnyD == Cls(DigitChars)
AnyChar == NotCls(LineBreaks)

InCls(c, cls) == Len(c) = 1 /\ ((c \in cls[2]) # cls[3])

\* the end of the longest run of characters of cls that starts at p
RunEnd(cls, str, p) ==
    LET stops == {q \in p..(Len(str) + 1) : ~InCls(At(str, q), cls)}
    IN  IF p > Len(str) THEN p ELSE CHOOSE q \in stops : \A k \in stops : q <= k

RECURSIVE Run(_, _, _)
Run(re, str, P) ==
    CASE re[1] = "lit" ->
            {p + Len(re[2]) : p \in {q \in P : Slice(str, q, q + Len(re[2]) - 1) = re[2]}}
      [] re[1] = "cls" -> {p + 1 : p \in {q \in P : InCls(At(str, q), re)}}
      [] re[1] = "star" -> UNION {p..RunEnd(re[2], str, p) : p \in P}
      [] re[1] = "plus" -> UNION {(p + 1)..RunEnd(re[2], str, p) : p \in P}
      [] re[1] = "opt" -> P \cup Run(re[2], str, P)
      [] re[1] = "cat" ->
            IF re[2] = <<>> \/ P = {} THEN P
            ELSE Run(Cat(Tail(re[2])), str, Run(Head(re[2]), str, P))
      [] re[1] = "alt" -> UNION {Run(re[2][i], str, P) : i \in 1..Len(re[2])}
      [] re[1] = "bol" -> P \cap {1}
      [] re[1] = "wordb" ->
            {p \in P : (At(str, p - 1) \in WordChars) # (At(str, p) \in WordChars)}

\* str.match(re) as a truth value: re matches somewhere in str
Test(re, str) == Run(re, str, 1..(Len(str) + 1)) # {}

\* the same with the flag i, for a pattern written in lower case
TestI(re, str) == Test(re, toLowerCase(str))

-----------------------------------------------------------------------------
(* CodeAnalyzer: helpers                                                   *)

Issue(severity, title, description, file, line, suggestion, codeSnippet, language) ==
    [severity |-> severity, title |-> title, description |-> description,
     file |-> file, line |-> line, suggestion |-> suggestion,
     codeSnippet |-> codeSnippet, language |-> language]

\* fileName.toLowerCase().match(/\.[^.]*$/): from the last '.' to the end
getFileExtension(fileName) ==
    LET lower == toLowerCase(fileName)
        dots == {i \in 1..Len(lower) : SubSeq(lower, i, i) = "."}
    IN  IF dots = {} THEN ""
        ELSE Slice(lower, CHOOSE i \in dots : \A k \in dots : k <= i, Len(lower))

languageMap ==
    [ext \in {".js", ".ts", ".py", ".java", ".c", ".cpp", ".cs", ".php", ".rb", ".go",
              ".rs", ".swift", ".kt", ".scala", ".html", ".css", ".scss", ".less",
              ".json", ".xml", ".yaml", ".yml"} |->
        CASE ext = ".js" -> "javascript" [] ext = ".ts" -> "typescript"
          [] ext = ".py" -> "python" [] ext = ".java" -> "java"
          [] ext = ".c" -> "c" [] ext = ".cpp" -> "cpp"
          [] ext = ".cs" -> "csharp" [] ext = ".php" -> "php"
          [] ext = ".rb" -> "ruby" [] ext = ".go" -> "go"
          [] ext = ".rs" -> "rust" [] ext = ".swift" -> "swift"
          [] ext = ".kt" -> "kotlin" [] ext = ".scala" -> "scala"
          [] ext = ".html" -> "html" [] ext = ".css" -> "css"
          [] ext = ".scss" -> "scss" [] ext = ".less" -> "less"
          [] ext = ".json" -> "json" [] ext = ".xml" -> "xml"
          [] ext = ".yaml" -> "yaml" [] ext = ".yml" -> "yaml"]

\* languageMap[ext] || 'text'
getLanguageFromExtension(ext) ==
    IF ext \in DOMAIN languageMap THEN languageMap[ext] ELSE "text"

\* array.push(...a, ...b, ...): the concatenation of the arrays of seqs
RECURSIVE Flatten(_)
Flatten(seqs) == IF seqs = <<>> THEN <<>> ELSE Head(seqs) \o Flatten(Tail(seqs))

\* a filter that keeps every change
addedLinesOf_everyChange(fileChange) == fileChange.changes

\* fileChange.changes.filter(c => c.type === 'addition')
addedLinesOf(fileChange) ==
    SelectSeq(fileChange.changes, LAMBDA c : c.type = "addition")

\* Array.prototype.sort with the comparator (a, b) => key(a) - key(b), as the
\* order of the indices: a stable insertion sort
RECURSIVE sortedOrder(_, _)
sortedOrder(keys, n) ==
    IF n = 0 THEN <<>>
    ELSE LET prev == sortedOrder(keys, n - 1)
             keep == Cardinality({k \in 1..Len(prev) : keys[prev[k]] <= keys[n]})
         IN  SubSeq(prev, 1, keep) \o <<n>> \o SubSeq(prev, keep + 1, Len(prev))

\* [...fileChange.changes].sort((a, b) => a.lineNumber - b.lineNumber)
sortByLineNumber(changes) ==
    LET order == sortedOrder([i \in 1..Len(changes) |-> changes[i].lineNumber], Len(changes))
    IN  [k \in 1..Len(changes) |-> changes[order[k]]]

\* String(n).padStart(3, ' ')
padStart3(n) ==
    LET str == numToString(n)
    IN  IF Len(str) >= 3 THEN str ELSE SubSeq("   ", 1, 3 - Len(str)) \o str

typeIndicator(type) ==
    IF type = "addition" THEN "+" ELSE IF type = "deletion" THEN "-" ELSE " "

\* the callback of contextLinesData.map
formatLine(line, targetLineNumber) ==
    (IF line.lineNumber = targetLineNumber THEN "> " ELSE "  ")
        \o padStart3(line.lineNumber) \o typeIndicator(line.type) \o " " \o line.content

RECURSIVE joinLines(_)
joinLines(strs) ==
    IF strs = <<>> THEN ""
    ELSE IF Len(strs) = 1 THEN strs[1]
    ELSE strs[1] \o "\n" \o joinLines(Tail(strs))

\* array.slice(-n)
sliceLast(seq, n) ==
    IF n = 0 THEN seq ELSE SubSeq(seq, Max(1, Len(seq) - n + 1), Len(seq))

\* array.slice(0, n)
sliceFirst(seq, n) == SubSeq(seq, 1, Min(n, Len(seq)))

\* a window that keeps every change of the range of line numbers
getCodeContext_wholeRange(fileChange, targetLineNumber, contextLines) ==
    LET allLines == sortByLineNumber(fileChange.changes)
        found == {i \in 1..Len(allLines) : allLines[i].lineNumber = targetLineNumber}
        targetLine == allLines[CHOOSE i \in found : \A k \in found : i <= k]
        beforeLines ==
            SelectSeq(allLines, LAMBDA l : l.lineNumber < targetLineNumber
                                          /\ l.lineNumber >= targetLineNumber - contextLines)
        afterLines ==
            SelectSeq(allLines, LAMBDA l : l.lineNumber > targetLineNumber
                                          /\ l.lineNumber <= targetLineNumber + contextLines)
        contextLinesData == beforeLines \o <<targetLine>> \o afterLines
        formattedLines == [k \in 1..Len(contextLinesData) |->
                              formatLine(contextLinesData[k], targetLineNumber)]
    IN  IF found = {} THEN "// Line " \o numToString(targetLineNumber) \o " not found in changes"
        ELSE joinLines(formattedLines)

getCodeContext(fileChange, targetLineNumber, contextLines) ==
    LET allLines == sortByLineNumber(fileChange.changes)
        found == {i \in 1..Len(allLines) : allLines[i].lineNumber = targetLineNumber}
        targetLine == allLines[CHOOSE i \in found : \A k \in found : i <= k]
        beforeLines == sliceLast(
            SelectSeq(allLines, LAMBDA l : l.lineNumber < targetLineNumber
                                          /\ l.lineNumber >= targetLineNumber - contextLines),
            contextLines)
        afterLines == sliceFirst(
            SelectSeq(allLines, LAMBDA l : l.lineNumber > targetLineNumber
                                          /\ l.lineNumber <= targetLineNumber + contextLines),
            contextLines)
        contextLinesData == beforeLines \o <<targetLine>> \o afterLines
        formattedLines == [k \in 1..Len(contextLinesData) |->
                              formatLine(contextLinesData[k], targetLineNumber)]
    IN  IF found = {} THEN "// Line " \o numToString(targetLineNumber) \o " not found in changes"
        ELSE IF Len(formattedLines) = 1
        THEN "> " \o padStart3(targetLine.lineNumber) \o typeIndicator(targetLine.type)
                  \o " " \o targetLine.content
        ELSE joinLines(formattedLines)

createIssue(severity, title, description, file, line, suggestion, fileChange, contextLines) ==
    Issue(severity, title, description, file, line, suggestion,
          getCodeContext(fileChange, line, contextLines),
          getLanguageFromExtension(getFileExtension(file)))

-----------------------------------------------------------------------------
(* CodeAnalyzer: the patterns of the detectors                             *)

Quote == Cls({"'", "\""})
NotQuote == NotCls({"'", "\""})
NotClose == NotCls({")"})

\* /\b(TODO|FIXME)\b/i
ReTodo == Cat(<<WordB, Alt(<<Lit("todo"), Lit("fixme")>>), WordB>>)

\* /(password|secret|key|token)\s*[:=]\s*['""][^'""]+['""]|api_key/i
ReSecret ==
    Alt(<<Cat(<<Alt(<<Lit("password"), Lit("secret"), Lit("key"), Lit("token")>>),
                Star(AnyS), Cls({":", "="}), Star(AnyS), Quote, Plus(NotQuote), Quote>>),
          Lit("api_key")>>)

\* /[^=!]==[^=]|[^=!]!=[^=]/
ReLooseEquality ==
    Alt(<<Cat(<<NotCls({"=", "!"}), Lit("=="), NotCls({"="})>>),
          Cat(<<NotCls({"=", "!"}), Lit("!="), NotCls({"="})>>)>>)

\* /\w+\.\w+/
RePropertyAccess == Cat(<<Plus(AnyW), Lit("."), Plus(AnyW)>>)

\* /\?\./
ReOptionalChain == Lit("?.")

\* /if\s*\(|&&|catch|try/
ReGuarded ==
    Alt(<<Cat(<<Lit("if"), Star(AnyS), Lit("(")>>), Lit("&&"), Lit("catch"), Lit("try")>>)

\* /if\s*\([^)]*null/
ReIfNull == Cat(<<Lit("if"), Star(AnyS), Lit("("), Star(NotClose), Lit("null")>>)

\* /if\s*\([^)]*undefined/
ReIfUndefined == Cat(<<Lit("if"), Star(AnyS), Lit("("), Star(NotClose), Lit("undefined")>>)

\* /&&\s*\w+/
ReAndOperand == Cat(<<Lit("&&"), Star(AnyS), Plus(AnyW)>>)

\* /\[\s*\d+\s*\]/
ReNumericIndex == Cat(<<Lit("["), Star(AnyS), Plus(AnyD), Star(AnyS), Lit("]")>>)

\* /\[.*\]/
ReAnyIndex == Cat(<<Lit("["), Star(AnyChar), Lit("]")>>)

\* /\.length/
ReLength == Lit(".length")

\* /while\s*\(\s*true\s*\)|for\s*\(\s*;\s*;\s*\)/
ReInfiniteLoop ==
    Alt(<<Cat(<<Lit("while"), Star(AnyS), Lit("("), Star(AnyS), Lit("true"), Star(AnyS), Lit(")")>>),
          Cat(<<Lit("for"), Star(AnyS), Lit("("), Star(AnyS), Lit(";"), Star(AnyS), Lit(";"),
                Star(AnyS), Lit(")")>>)>>)

\* /if\s*\([^)]*=[^=]/
ReAssignInCondition ==
    Cat(<<Lit("if"), Star(AnyS), Lit("("), Star(NotClose), Lit("="), NotCls({"="})>>)

\* /return.*\n.*[^}]/
ReCodeAfterReturn ==
    Cat(<<Lit("return"), Star(AnyChar), Lit("\n"), Star(AnyChar), NotCls({"}"})>>)

\* /\+\s*['""]|['""].*\+/
ReCoercion ==
    Alt(<<Cat(<<Lit("+"), Star(AnyS), Quote>>), Cat(<<Quote, Star(AnyChar), Lit("+")>>)>>)

\* /^[\s]*(?:export\s+)?(?:async\s+)?function\s+\w+/
ReFunctionKeyword ==
    Cat(<<Bol, Star(AnyS), Opt(Cat(<<Lit("export"), Plus(AnyS)>>)),
          Opt(Cat(<<Lit("async"), Plus(AnyS)>>)), Lit("function"), Plus(AnyS), Plus(AnyW)>>)

\* /^[\s]*(?:const|let|var)\s+\w+\s*=\s*(?:async\s+)?\([^)]*\)\s*=>/
ReArrowFunction ==
    Cat(<<Bol, Star(AnyS), Alt(<<Lit("const"), Lit("let"), Lit("var")>>), Plus(AnyS),
          Plus(AnyW), Star(AnyS), Lit("="), Star(AnyS),
          Opt(Cat(<<Lit("async"), Plus(AnyS)>>)), Lit("("), Star(NotClose), Lit(")"),
          Star(AnyS), Lit("=>")>>)

\* /^[\s]*(?:async\s+)?\w+\s*\([^)]*\)\s*\{/
ReMethod ==
    Cat(<<Bol, Star(AnyS), Opt(Cat(<<Lit("async"), Plus(AnyS)>>)), Plus(AnyW), Star(AnyS),
          Lit("("), Star(NotClose), Lit(")"), Star(AnyS), Lit("{")>>)

\* /^[\s]*(?:public|private|protected)\s+(?:async\s+)?\w+\s*\([^)]*\)/
ReModifiedMethod ==
    Cat(<<Bol, Star(AnyS), Alt(<<Lit("public"), Lit("private"), Lit("protected")>>),
          Plus(AnyS), Opt(Cat(<<Lit("async"), Plus(AnyS)>>)), Plus(AnyW), Star(AnyS),
          Lit("("), Star(NotClose), Lit(")")>>)

\* /^[\s]*(?:export\s+)?class\s+\w+/
ReClassDeclaration ==
    Cat(<<Bol, Star(AnyS), Opt(Cat(<<Lit("export"), Plus(AnyS)>>)), Lit("class"),
          Plus(AnyS), Plus(AnyW)>>)

\* /\/\*\*/
ReJSDocOpen == Lit("/**")

\* /\*\//
ReJSDocClose == Lit("*/")

\* /^\s*[\*\/]/
ReCommentLine == Cat(<<Bol, Star(AnyS), Cls({"*", "/"})>>)

\* /for\s*\([^)]*\.length[^)]*\)/
ReLoopLength ==
    Cat(<<Lit("for"), Star(AnyS), Lit("("), Star(NotClose), Lit(".length"), Star(NotClose),
          Lit(")")>>)

\* /for\s*\(/
ReFor == Cat(<<Lit("for"), Star(AnyS), Lit("(")>>)

\* /for\s*\(|while\s*\(|forEach\s*\(/
ReAnyLoop ==
    Alt(<<Cat(<<Lit("for"), Star(AnyS), Lit("(")>>), Cat(<<Lit("while"), Star(AnyS), Lit("(")>>),
          Cat(<<Lit("forEach"), Star(AnyS), Lit("(")>>)>>)

\* /\.(readFileSync|writeFileSync|existsSync|statSync)\s*\(/
ReSyncFileCall ==
    Cat(<<Lit("."), Alt(<<Lit("readFileSync"), Lit("writeFileSync"), Lit("existsSync"),
                          Lit("statSync")>>), Star(AnyS), Lit("(")>>)

\* /\+=.*['""]/
RePlusAssign == Cat(<<Lit("+="), Star(AnyChar), Quote>>)

\* /function.*\(.*\).*\{/
ReFunctionBody ==
    Cat(<<Lit("function"), Star(AnyChar), Lit("("), Star(AnyChar), Lit(")"), Star(AnyChar),
          Lit("{")>>)

\* /sort\s*\(/ ... /RegExp|new\s+RegExp/
ReExpensive ==
    Alt(<<Cat(<<Lit("sort"), Star(AnyS), Lit("(")>>), Cat(<<Lit("filter"), Star(AnyS), Lit("(")>>),
          Cat(<<Lit("map"), Star(AnyS), Lit("(")>>), Cat(<<Lit("reduce"), Star(AnyS), Lit("(")>>),
          Lit("JSON.parse"), Lit("JSON.stringify"),
          Lit("RegExp"), Cat(<<Lit("new"), Plus(AnyS), Lit("RegExp")>>)>>)

-----------------------------------------------------------------------------
(* CodeAnalyzer: the detectors                                             *)

\* line.content.length > 120
MaxLineLength == 120

\* analyzeCodeQuality: the body of the loop over the added lines
codeQualityOfLine(fileChange, line) ==
    (IF Len(line.content) > MaxLineLength
     THEN <<createIssue("minor", "Long line detected",
                "Line is " \o numToString(Len(line.content)) \o " characters long",
                fileChange.fileName, line.lineNumber,
                "Break into multiple lines for better readability", fileChange, 3)>>
     ELSE <<>>)
    \o
    (IF TestI(ReTodo, line.content)
     THEN <<createIssue("info", "TODO/FIXME comment found",
                "Unresolved TODO or FIXME comment",
                fileChange.fileName, line.lineNumber,
                "Address the TODO or create a proper issue", fileChange, 2)>>
     ELSE <<>>)

\* str.replace(/(['""])[^'""]*(['""])/g, '$1***$2') from position i on
RECURSIVE maskQuoted(_, _)
maskQuoted(str, i) ==
    LET quotes == {k \in i..Len(str) : SubSeq(str, k, k) \in {"'", "\""}}
        q1 == CHOOSE k \in quotes : \A m \in quotes : k <= m
        rest == {k \in quotes : k > q1}
        q2 == CHOOSE k \in rest : \A m \in rest : k <= m
    IN  IF quotes = {} \/ rest = {} THEN Slice(str, i, Len(str))
        ELSE Slice(str, i, q1) \o "***" \o SubSeq(str, q2, q2) \o maskQuoted(str, q2 + 1)

\* analyzeSecurityIssues: the body of the loop
securityOfLine(fileChange, line) ==
    IF TestI(ReSecret, line.content)
    THEN <<Issue("critical", "Potential hardcoded secret",
                 "Possible hardcoded credential or secret",
                 fileChange.fileName, line.lineNumber, "Move to environment variables",
                 maskQuoted(getCodeContext(fileChange, line.lineNumber, 2), 1),
                 undefined)>>
    ELSE <<>>

\* analyzeBestPractices: the body of the loop
bestPracticesOfLine(fileChange, line) ==
    IF Test(ReLooseEquality, line.content)
    THEN <<Issue("minor", "Use strict equality", "Using loose equality instead of strict",
                 fileChange.fileName, line.lineNumber, "Use === or !== for strict comparison",
                 getCodeContext(fileChange, line.lineNumber, 2), undefined)>>
    ELSE <<>>

hasNullCheckNearby(fileChange, lineNumber) ==
    \E i \in 1..Len(fileChange.changes) :
        LET c == fileChange.changes[i]
            dist == IF c.lineNumber >= lineNumber THEN c.lineNumber - lineNumber
                    ELSE lineNumber - c.lineNumber
        IN  /\ dist <= 3
            /\ \/ Test(ReIfNull, c.content)
               \/ Test(ReIfUndefined, c.content)
               \/ Test(ReAndOperand, c.content)
               \/ Test(ReOptionalChain, c.content)

\* analyzeLogicalBugs: the body of the loop
logicalBugsOfLine(fileChange, fileExt, line) ==
    (IF /\ Test(RePropertyAccess, line.content) /\ ~Test(ReOptionalChain, line.content)
        /\ ~hasNullCheckNearby(fileChange, line.lineNumber)
        /\ ~Test(ReGuarded, line.content)
     THEN <<Issue("major", "Potential null/undefined access",
                  "Object property access without null checking",
                  fileChange.fileName, line.lineNumber,
                  "Add null check or use optional chaining (?.)",
                  getCodeContext(fileChange, line.lineNumber, 3), undefined)>>
     ELSE <<>>)
    \o
    (IF \/ Test(ReNumericIndex, line.content)
        \/ (Test(ReAnyIndex, line.content) /\ ~Test(ReLength, line.content))
     THEN <<Issue("minor", "Array access without bounds check",
                  "Direct array indexing without length validation",
                  fileChange.fileName, line.lineNumber,
                  "Check array length before accessing elements",
                  getCodeContext(fileChange, line.lineNumber, 2), undefined)>>
     ELSE <<>>)
    \o
    (IF Test(ReInfiniteLoop, line.content)
     THEN <<Issue("major", "Potential infinite loop",
                  "Loop condition that may never become false",
                  fileChange.fileName, line.lineNumber,
                  "Add proper exit condition or break statement",
                  getCodeContext(fileChange, line.lineNumber, 4), undefined)>>
     ELSE <<>>)
    \o
    (IF Test(ReAssignInCondition, line.content)
     THEN <<Issue("major", "Assignment in conditional",
                  "Assignment (=) used instead of comparison (==, ===)",
                  fileChange.fileName, line.lineNumber,
                  "Use comparison operator or wrap assignment in extra parentheses if intentional",
                  getCodeContext(fileChange, line.lineNumber, 3), undefined)>>
     ELSE <<>>)
    \o
    (IF Test(ReCodeAfterReturn, line.content)
     THEN <<Issue("minor", "Potentially unreachable code",
                  "Code after return statement may be unreachable",
                  fileChange.fileName, line.lineNumber,
                  "Remove unreachable code or restructure logic",
                  getCodeContext(fileChange, line.lineNumber, 4), undefined)>>
     ELSE <<>>)
    \o
    (IF (fileExt = ".js" \/ fileExt = ".ts") /\ Test(ReCoercion, line.content)
     THEN <<Issue("minor", "Potential type coercion",
                  "String concatenation with + operator may cause unexpected type conversion",
                  fileChange.fileName, line.lineNumber,
                  "Use template literals or explicit type conversion",
                  getCodeContext(fileChange, line.lineNumber, 2), undefined)>>
     ELSE <<>>)

isFunctionDeclaration(content) ==
    \/ Test(ReFunctionKeyword, content)
    \/ Test(ReArrowFunction, content)
    \/ Test(ReMethod, content)
    \/ Test(ReModifiedMethod, content)

\* the loop of hasJSDocAbove, from index i (1-based) down to index low
RECURSIVE jsDocAboveFrom(_, _, _)
jsDocAboveFrom(lines, i, low) ==
    IF i < low THEN FALSE
    ELSE IF Test(ReJSDocClose, lines[i].content) THEN TRUE
    ELSE IF trim(lines[i].content) # "" /\ ~Test(ReCommentLine, lines[i].content) THEN FALSE
    ELSE jsDocAboveFrom(lines, i - 1, low)

\* currentIndex is 1-based here: the source's currentIndex + 1
hasJSDocAbove(lines, currentIndex) ==
    IF currentIndex = 1 THEN FALSE
    ELSE jsDocAboveFrom(lines, currentIndex - 1, Max(1, currentIndex - 5))

\* the capture of /(?:function\s+(\w+)|(\w+)\s*\(|(\w+)\s*=)/ for a match that
\* starts at position p, "" when there is none
functionNameAt(content, p) ==
    LET s1 == RunEnd(AnyS, content, p + 8)
        w1 == RunEnd(AnyW, content, s1)
        w2 == RunEnd(AnyW, content, p)
        s2 == RunEnd(AnyS, content, w2)
    IN  IF Slice(content, p, p + 7) = "function" /\ s1 > p + 8 /\ w1 > s1
        THEN Slice(content, s1, w1 - 1)
        ELSE IF w2 > p /\ At(content, s2) \in {"(", "="}
        THEN Slice(content, p, w2 - 1)
        ELSE ""

\* str.split(sep) for a separator of one character
RECURSIVE splitOn(_, _)
splitOn(str, sep) ==
    LET k == indexOfFrom(str, sep, 1)
    IN  IF k = 0 THEN <<str>>
        ELSE <<Slice(str, 1, k - 1)>> \o splitOn(Slice(str, k + 1, Len(str)), sep)

\* p.trim().split(/\s+/)[0].replace(/[=:].*/, '')
paramName(p) ==
    LET t == trim(p)
        spaces == {i \in 1..Len(t) : IsSpace(SubSeq(t, i, i))}
        first == IF spaces = {} THEN t
                 ELSE Slice(t, 1, (CHOOSE i \in spaces : \A k \in spaces : i <= k) - 1)
        marks == {i \in 1..Len(first) : SubSeq(first, i, i) \in {"=", ":"}}
    IN  IF marks = {} THEN first
        ELSE Slice(first, 1, (CHOOSE i \in marks : \A k \in marks : i <= k) - 1)

extractFunctionInfo(content) ==
    LET starts == {p \in 1..Len(content) : functionNameAt(content, p) # ""}
        open == indexOfFrom(content, "(", 1)
        close == IF open = 0 THEN 0 ELSE indexOfFrom(content, ")", open + 1)
        inner == IF close = 0 THEN "" ELSE Slice(content, open + 1, close - 1)
        parts == splitOn(inner, ",")
    IN  [name |-> IF starts = {} THEN "anonymous"
                  ELSE functionNameAt(content, CHOOSE p \in starts : \A k \in starts : p <= k),
         params |-> IF inner = "" THEN <<>> ELSE [k \in 1..Len(parts) |-> paramName(parts[k])],
         hasReturn |-> includes(content, "return") \/ includes(content, "=>")]

RECURSIVE paramTags(_, _)
paramTags(params, i) ==
    IF i > Len(params) THEN ""
    ELSE (IF trim(params[i]) # ""
          THEN " * @param {*} " \o trim(params[i]) \o " - Description\n" ELSE "")
         \o paramTags(params, i + 1)

generateJSDocSuggestion(functionInfo) ==
    "/**\n * Description of " \o functionInfo.name \o "\n"
        \o paramTags(functionInfo.params, 1)
        \o (IF functionInfo.hasReturn THEN " * @returns {*} Description\n" ELSE "")
        \o " */"

\* startIndex is 1-based
RECURSIVE extractJSDocBlock(_, _)
extractJSDocBlock(lines, startIndex) ==
    IF startIndex > Len(lines) THEN ""
    ELSE lines[startIndex].content \o "\n"
         \o (IF includes(lines[startIndex].content, "*/") THEN ""
             ELSE extractJSDocBlock(lines, startIndex + 1))

\* startIndex is 1-based; the index of the line found, 0 for null
findNextFunction(lines, startIndex) ==
    LET hits == {i \in (startIndex + 1)..Min(Len(lines), startIndex + 9) :
                    isFunctionDeclaration(lines[i].content)}
    IN  IF hits = {} THEN 0 ELSE CHOOSE i \in hits : \A k \in hits : i <= k

RECURSIVE missingParams(_, _, _)
missingParams(jsDocBlock, params, i) ==
    IF i > Len(params) THEN <<>>
    ELSE (IF \/ (trim(params[i]) # "" /\ ~includes(jsDocBlock, "@param"))
             \/ ~includes(jsDocBlock, params[i])
          THEN <<"Missing @param for '" \o params[i] \o "'">> ELSE <<>>)
         \o missingParams(jsDocBlock, params, i + 1)

validateJSDoc(jsDocBlock, functionInfo) ==
    missingParams(jsDocBlock, functionInfo.params, 1)
    \o (IF /\ functionInfo.hasReturn /\ ~includes(jsDocBlock, "@returns")
           /\ ~includes(jsDocBlock, "@return")
        THEN <<"Missing @returns documentation">> ELSE <<>>)

\* line.content.match(/class\s+(\w+)/)?.[1] || 'Unknown'
classNameOf(content) ==
    LET starts == {p \in 1..Len(content) :
                      /\ Slice(content, p, p + 4) = "class"
                      /\ RunEnd(AnyS, content, p + 5) > p + 5
                      /\ RunEnd(AnyW, content, RunEnd(AnyS, content, p + 5))
                            > RunEnd(AnyS, content, p + 5)}
        p0 == CHOOSE p \in starts : \A k \in starts : p <= k
        s0 == RunEnd(AnyS, content, p0 + 5)
    IN  IF starts = {} THEN "Unknown" ELSE Slice(content, s0, RunEnd(AnyW, content, s0) - 1)

\* analyzeJSDocIssues: the body of the loop, for the added line of index i (1-based)
jsDocOfLine(fileChange, addedLines, i) ==
    LET line == addedLines[i]
        functionInfo == extractFunctionInfo(line.content)
        className == classNameOf(line.content)
        jsDocBlock == extractJSDocBlock(addedLines, i)
        next == findNextFunction(addedLines, i)
        jsDocIssues == validateJSDoc(jsDocBlock, extractFunctionInfo(addedLines[next].content))
    IN  (IF isFunctionDeclaration(line.content) /\ ~hasJSDocAbove(addedLines, i)
         THEN <<Issue("minor", "Missing JSDoc documentation",
                      "Function '" \o functionInfo.name \o "' lacks JSDoc documentation",
                      fileChange.fileName, line.lineNumber,
                      generateJSDocSuggestion(functionInfo),
                      getCodeContext(fileChange, line.lineNumber, 3), undefined)>>
         ELSE <<>>)
        \o
        (IF Test(ReClassDeclaration, line.content) /\ ~hasJSDocAbove(addedLines, i)
         THEN <<Issue("minor", "Missing class JSDoc",
                      "Class '" \o className \o "' lacks JSDoc documentation",
                      fileChange.fileName, line.lineNumber,
                      "Add JSDoc:\n/**\n * Description of " \o className \o " class\n */",
                      getCodeContext(fileChange, line.lineNumber, 3), undefined)>>
         ELSE <<>>)
        \o
        (IF Test(ReJSDocOpen, line.content) /\ next # 0
         THEN [k \in 1..Len(jsDocIssues) |->
                  Issue("minor", "Incomplete JSDoc", jsDocIssues[k],
                        fileChange.fileName, line.lineNumber,
                        "Add missing JSDoc tags (@param, @returns, @throws)",
                        Slice(jsDocBlock, 1, 100) \o "...", undefined)]
         ELSE <<>>)

hasNestedLoop(fileChange, lineNumber) ==
    \E i \in 1..Len(fileChange.changes) :
        /\ fileChange.changes[i].lineNumber > lineNumber
        /\ fileChange.changes[i].lineNumber <= lineNumber + 20
        /\ Test(ReAnyLoop, fileChange.changes[i].content)

hasExpensiveOperation(content) == Test(ReExpensive, content)

\* analyzePerformanceIssues: the body of the loop
performanceOfLine(fileChange, fileExt, line) ==
    (IF Test(ReLoopLength, line.content)
     THEN <<Issue("minor", "Inefficient loop condition",
                  "Array length accessed in every loop iteration",
                  fileChange.fileName, line.lineNumber,
                  "Cache array length in a variable before the loop",
                  getCodeContext(fileChange, line.lineNumber, 3), undefined)>>
     ELSE <<>>)
    \o
    (IF Test(ReFor, line.content) /\ hasNestedLoop(fileChange, line.lineNumber)
     THEN <<Issue("minor", "Nested loop detected",
                  "Nested loops can have O(n^2) complexity",
                  fileChange.fileName, line.lineNumber,
                  "Consider optimizing with better data structures or algorithms",
                  getCodeContext(fileChange, line.lineNumber, 4), undefined)>>
     ELSE <<>>)
    \o
    (IF Test(ReSyncFileCall, line.content)
     THEN <<Issue("major", "Synchronous file operation",
                  "Synchronous operations block the event loop",
                  fileChange.fileName, line.lineNumber,
                  "Use asynchronous alternatives with async/await",
                  getCodeContext(fileChange, line.lineNumber, 3), undefined)>>
     ELSE <<>>)
    \o
    (IF Test(RePlusAssign, line.content) /\ (fileExt = ".js" \/ fileExt = ".ts")
     THEN <<Issue("minor", "Inefficient string concatenation",
                  "String concatenation in loops can be inefficient",
                  fileChange.fileName, line.lineNumber,
                  "Use array.join() or template literals for better performance",
                  getCodeContext(fileChange, line.lineNumber, 3), undefined)>>
     ELSE <<>>)
    \o
    (IF Test(ReFunctionBody, line.content) /\ hasExpensiveOperation(line.content)
     THEN <<Issue("info", "Consider memoization",
                  "Function with expensive operations could benefit from memoization",
                  fileChange.fileName, line.lineNumber,
                  "Consider caching results for repeated calls with same parameters",
                  getCodeContext(fileChange, line.lineNumber, 4), undefined)>>
     ELSE <<>>)

analyzeCodeQuality(fileChange) ==
    LET addedLines == addedLinesOf(fileChange)
    IN  Flatten([k \in 1..Len(addedLines) |-> codeQualityOfLine(fileChange, addedLines[k])])

analyzeSecurityIssues(fileChange) ==
    LET addedLines == addedLinesOf(fileChange)
    IN  Flatten([k \in 1..Len(addedLines) |-> securityOfLine(fileChange, addedLines[k])])

analyzeBestPractices(fileChange) ==
    LET fileExt == getFileExtension(fileChange.fileName)
        addedLines == addedLinesOf(fileChange)
    IN  IF fileExt = ".ts" \/ fileExt = ".js"
        THEN Flatten([k \in 1..Len(addedLines) |->
                         bestPracticesOfLine(fileChange, addedLines[k])])
        ELSE <<>>

analyzeLogicalBugs(fileChange) ==
    LET fileExt == getFileExtension(fileChange.fileName)
        addedLines == addedLinesOf(fileChange)
    IN  Flatten([k \in 1..Len(addedLines) |->
                    logicalBugsOfLine(fileChange, fileExt, addedLines[k])])

analyzeJSDocIssues(fileChange) ==
    LET fileExt == getFileExtension(fileChange.fileName)
        addedLines == addedLinesOf(fileChange)
    IN  IF fileExt # ".js" /\ fileExt # ".ts" /\ fileExt # ".jsx" /\ fileExt # ".tsx"
        THEN <<>>
        ELSE Flatten([k \in 1..Len(addedLines) |-> jsDocOfLine(fileChange, addedLines, k)])

analyzePerformanceIssues(fileChange) ==
    LET fileExt == getFileExtension(fileChange.fileName)
        addedLines == addedLinesOf(fileChange)
    IN  Flatten([k \in 1..Len(addedLines) |->
                    performanceOfLine(fileChange, fileExt, addedLines[k])])

\* an analysis that also reports the prompt it was given
analyzeFileChange_reportsPrompt(fileChange, prompt) ==
    analyzeCodeQuality(fileChange)
    \o analyzeSecurityIssues(fileChange)
    \o analyzeBestPractices(fileChange)
    \o analyzeLogicalBugs(fileChange)
    \o analyzeJSDocIssues(fileChange)
    \o analyzePerformanceIssues(fileChange)
    \o <<Issue("info", "Review prompt", prompt, fileChange.fileName, 0, "", "", undefined)>>

\* the prompt is a parameter that the body does not read
analyzeFileChange(fileChange, prompt) ==
    analyzeCodeQuality(fileChange)
    \o analyzeSecurityIssues(fileChange)
    \o analyzeBestPractices(fileChange)
    \o analyzeLogicalBugs(fileChange)
    \o analyzeJSDocIssues(fileChange)
    \o analyzePerformanceIssues(fileChange)

\* issues.filter(i => i.severity === severity).length
countSeverity(iss, severity) ==
    Cardinality({i \in 1..Len(iss) : iss[i].severity = severity})

\* files.reduce((sum, f) => sum + f.additions, 0)
RECURSIVE sumAdditions(_)
sumAdditions(fs) == IF fs = <<>> THEN 0 ELSE Head(fs).additions + sumAdditions(Tail(fs))

\* files.reduce((sum, f) => sum + f.deletions, 0)
RECURSIVE sumDeletions(_)
sumDeletions(fs) == IF fs = <<>> THEN 0 ELSE Head(fs).deletions + sumDeletions(Tail(fs))

generateSummary_everyBand(fs, iss, prompt) ==
    "This code review analyzed " \o numToString(Len(fs)) \o " files with "
        \o numToString(sumAdditions(fs)) \o " additions and "
        \o numToString(sumDeletions(fs)) \o " deletions.\n\n"
        \o (IF Len(iss) = 0
            THEN "[check] **Excellent work!** No significant issues were found."
            ELSE "Found " \o numToString(Len(iss)) \o " issues:\n"
                 \o "- [alert] " \o numToString(countSeverity(iss, "critical"))
                 \o " critical issues\n"
                 \o "- [warning] " \o numToString(countSeverity(iss, "major"))
                 \o " major issues\n")

\* the marks [check], [alert] and [warning] stand for the emoji of the source;
\* the prompt is a parameter that the body does not read
generateSummary(fs, iss, prompt) ==
    LET criticalIssues == countSeverity(iss, "critical")
        majorIssues == countSeverity(iss, "major")
    IN  "This code review analyzed " \o numToString(Len(fs)) \o " files with "
        \o numToString(sumAdditions(fs)) \o " additions and "
        \o numToString(sumDeletions(fs)) \o " deletions.\n\n"
        \o (IF Len(iss) = 0
            THEN "[check] **Excellent work!** No significant issues were found."
            ELSE "Found " \o numToString(Len(iss)) \o " issues:\n"
                 \o (IF criticalIssues > 0
                     THEN "- [alert] " \o numToString(criticalIssues) \o " critical issues\n"
                     ELSE "")
                 \o (IF majorIssues > 0
                     THEN "- [warning] " \o numToString(majorIssues) \o " major issues\n"
                     ELSE ""))

-----------------------------------------------------------------------------
(* CodeReviewer.analyzeDiff                                                *)

\* const prompt = reviewPrompt || this.promptManager.getTemplate('comprehensive')
resolvePrompt(reviewPrompt) ==
    IF truthy(reviewPrompt) THEN reviewPrompt
    ELSE getTemplate(InitialTemplates, "comprehensive")

getSeverityWeight(severity) ==
    CASE severity = "critical" -> 4
      [] severity = "major" -> 3
      [] severity = "minor" -> 2
      [] severity = "info" -> 1
      [] OTHER -> 0

\* an insertion sort that puts an element before the elements equal to it
RECURSIVE tiesFirstOrder(_, _)
tiesFirstOrder(keys, n) ==
    IF n = 0 THEN <<>>
    ELSE LET prev == tiesFirstOrder(keys, n - 1)
             keep == Cardinality({k \in 1..Len(prev) : keys[prev[k]] < keys[n]})
         IN  SubSeq(prev, 1, keep) \o <<n>> \o SubSeq(prev, keep + 1, Len(prev))

sortIssues_tiesReversed(iss) ==
    LET order == tiesFirstOrder([i \in 1..Len(iss) |-> 0 - getSeverityWeight(iss[i].severity)],
                                Len(iss))
    IN  [k \in 1..Len(iss) |-> iss[order[k]]]

\* issues.sort((a, b) => getSeverityWeight(b.severity) - getSeverityWeight(a.severity))
sortIssues(iss) ==
    LET order == sortedOrder([i \in 1..Len(iss) |-> 0 - getSeverityWeight(iss[i].severity)],
                             Len(iss))
    IN  [k \in 1..Len(iss) |-> iss[order[k]]]

loopFiles_unfiltered(parsedDiff, filtered) == parsedDiff

\* for (const fileChange of filteredFiles): the array the loop runs over
loopFiles(parsedDiff, filtered) == filtered

-----------------------------------------------------------------------------
(* Synthetic unified diffs: the inputs of the parser.                      *)

MaxBody == 3      \* hunk-body lines of a synthetic file block
MaxFiles == 2     \* file blocks of a synthetic diff

\* the n-th .. m-th elements of all sequences over S of length 1..n
SeqsUpTo(S, n) == UNION {[1..k -> S] : k \in 1..n}

InOld(line) == At(line, 1) \in {" ", "-"}
InNew(line) == At(line, 1) \in {" ", "+"}

CountOld(body) == Cardinality({i \in 1..Len(body) : InOld(body[i])})
CountNew(body) == Cardinality({i \in 1..Len(body) : InNew(body[i])})

\* "<start>[,<count>]" as git prints it: the count is left out when it is 1
RangeText(start, count) ==
    IF count = 1 THEN numToString(start)
    ELSE numToString(start) \o "," \o numToString(count)

HunkHeaderText(oldStart, newStart, body) ==
    "@@ -" \o RangeText(oldStart, CountOld(body))
           \o " +" \o RangeText(newStart, CountNew(body)) \o " @@"

HunkText(oldStart, newStart, body) ==
    <<HunkHeaderText(oldStart, newStart, body)>> \o body

\* the lines a hunk body is drawn from: an added, a removed, an unchanged
\* and an unchanged empty line, an added line "++x;", a removed line "--y;"
BodyLines == {"+a", "-b", " c", " ", "+++x;", "---y;"}

FileHeaderText ==
    <<"diff --git a/src/app.ts b/src/app.ts", "index 83db48f..bf2a1c4 100644",
      "--- a/src/app.ts", "+++ b/src/app.ts">>

\* one file block with the body in one hunk (cut = Len(body)) or cut in two
\* hunks, the second one ten lines further down the old file
OneFileDiff(body, cut) ==
    LET b1 == SubSeq(body, 1, cut)
        b2 == SubSeq(body, cut + 1, Len(body))
        old2 == 3 + CountOld(b1) + 10
        new2 == 3 + CountNew(b1) + 10
    IN  FileHeaderText \o HunkText(3, 3, b1)
        \o (IF b2 = <<>> THEN <<>> ELSE HunkText(old2, new2, b2)) \o <<"">>

HunkInputs ==
    {OneFileDiff(body, cut) : <<body, cut>> \in
        {bc \in SeqsUpTo(BodyLines, MaxBody) \X (1..MaxBody) : bc[2] <= Len(bc[1])}}

ModifiedBlock ==
    <<"diff --git a/src/util.ts b/src/util.ts", "index 1a2b3c4..5d6e7f8 100644",
      "--- a/src/util.ts", "+++ b/src/util.ts",
      "@@ -1,2 +1,3 @@", " c", "+a", " d">>

RenameBlock ==
    <<"diff --git a/old.ts b/new.ts", "similarity index 100%",
      "rename from old.ts", "rename to new.ts">>

NoPrefixBlock ==
    <<"diff --git src/lib.js src/lib.js", "index 2b3c4d5..6e7f8a9 100644",
      "--- src/lib.js", "+++ src/lib.js", "@@ -4 +4,2 @@", " k", "+q">>

NewFileBlock ==
    <<"diff --git a/n.py b/n.py", "new file mode 100644", "index 0000000..e69de29",
      "--- /dev/null", "+++ b/n.py", "@@ -0,0 +1 @@", "+print(1)">>

DeletedFileBlock ==
    <<"diff --git a/gone.md b/gone.md", "deleted file mode 100644",
      "index e69de29..0000000", "--- a/gone.md", "+++ /dev/null",
      "@@ -1 +0,0 @@", "-bye">>

\* a file with an added line that holds a carriage return, as a text with
\* the line ends of another system does, followed by the words of a header
ReturnInLineBlock ==
    <<"diff --git a/docs/patch.md b/docs/patch.md", "index 1a2b3c4..5d6e7f8 100644",
      "--- a/docs/patch.md", "+++ b/docs/patch.md",
      "@@ -1 +1,2 @@", " c", "+a\rdiff --git a/x.ts b/x.ts">>

BlockChoices ==
    {ModifiedBlock, RenameBlock, NoPrefixBlock, NewFileBlock, DeletedFileBlock,
     ReturnInLineBlock}

\* the text before the first block: none, the head of a commit, and a note
\* with a carriage return before the words of a header
Preambles ==
    {<<>>, <<"commit 1a2b3c4d", "Author: dev <dev@example.org>", "">>,
     <<"see\rdiff --git a/notes.md b/notes.md", "">>}

BlockInputs ==
    {pre \o Flatten(bs) \o <<"">> : <<pre, bs>> \in Preambles \X SeqsUpTo(BlockChoices, MaxFiles)}

ParseInputs == HunkInputs \cup BlockInputs

-----------------------------------------------------------------------------
(* parseDiff as a process: one step per block and per line of a block.     *)

NoOptions == [fileExtensions |-> Undefined, excludePatterns |-> Undefined, reviewPrompt |-> ""]
NoResult == [filesChanged |-> 0, linesAdded |-> 0, linesRemoved |-> 0,
             issues |-> <<>>, summary |-> ""]

InitParse ==
    /\ diff \in ParseInputs
    /\ options = NoOptions
    /\ pc = "split"
    /\ hunks = <<>>
    /\ hunkIdx = 0
    /\ lineIdx = 0
    /\ cursor = InitCursor
    /\ files = <<>>
    /\ filteredFiles = <<>>
    /\ fileIdx = 0
    /\ issues = <<>>
    /\ totals = [added |-> 0, removed |-> 0]
    /\ result = NoResult
    /\ ServerIdle
    /\ snippet = NoSnippet
    /\ awaited = NoAwaited

pipelineVars == <<options, filteredFiles, fileIdx, issues, totals, result>>

\* const hunks = diff.split(/^diff --git/m).slice(1)
SplitDiff ==
    /\ pc = "split"
    /\ hunks' = splitBlocks(diff)
    /\ hunkIdx' = 1
    /\ pc' = "block"
    /\ UNCHANGED <<diff, lineIdx, cursor, files, pipelineVars, serverVars, snippet, awaited>>

\* hunks.forEach: the header matches, the scan of the block's lines starts
BeginBlock ==
    /\ pc = "block" /\ hunkIdx <= Len(hunks)
    /\ fileMatch(hunks[hunkIdx]).ok
    /\ cursor' = InitCursor
    /\ lineIdx' = 1
    /\ pc' = "lines"
    /\ UNCHANGED <<diff, hunks, hunkIdx, files, pipelineVars, serverVars, snippet, awaited>>

\* if (!fileMatch) return
SkipBlock ==
    /\ pc = "block" /\ hunkIdx <= Len(hunks)
    /\ ~fileMatch(hunks[hunkIdx]).ok
    /\ hunkIdx' = hunkIdx + 1
    /\ UNCHANGED <<diff, pc, hunks, lineIdx, cursor, files, pipelineVars, serverVars, snippet, awaited>>

\* the branch of the lines.forEach callback that a line takes
lineBranch(line) ==
    IF isHunkLine(line) THEN "hunk"
    ELSE IF isAdditionLine(line) THEN "addition"
    ELSE IF isDeletionLine(line) THEN "deletion"
    ELSE IF isContextLine(line) THEN "context"
    ELSE "none"

\* one call of the lines.forEach callback, on a line that takes branch
ScanLine(branch) ==
    /\ pc = "lines" /\ lineIdx <= Len(hunks[hunkIdx])
    /\ lineBranch(hunks[hunkIdx][lineIdx]) = branch
    /\ cursor' = parseLine(cursor, hunks[hunkIdx][lineIdx])
    /\ lineIdx' = lineIdx + 1
    /\ UNCHANGED <<diff, pc, hunks, hunkIdx, files, pipelineVars, serverVars, snippet, awaited>>

ScanHunkHeader == ScanLine("hunk")
ScanAddition == ScanLine("addition")
ScanDeletion == ScanLine("deletion")
ScanContext == ScanLine("context")
ScanDropped == ScanLine("none")

\* files.push({...})
EndBlock ==
    /\ pc = "lines" /\ lineIdx > Len(hunks[hunkIdx])
    /\ files' = Append(files, FileChange(hunks[hunkIdx], cursor))
    /\ hunkIdx' = hunkIdx + 1
    /\ pc' = "block"
    /\ UNCHANGED <<diff, hunks, lineIdx, cursor, pipelineVars, serverVars, snippet, awaited>>

\* return files
ReturnFiles ==
    /\ pc = "block" /\ hunkIdx > Len(hunks)
    /\ pc' = "parsed"
    /\ UNCHANGED <<diff, hunks, hunkIdx, lineIdx, cursor, files, pipelineVars, serverVars, snippet, awaited>>

NextParse ==
    \/ SplitDiff
    \/ BeginBlock
    \/ SkipBlock
    \/ ScanHunkHeader
    \/ ScanAddition
    \/ ScanDeletion
    \/ ScanContext
    \/ ScanDropped
    \/ EndBlock
    \/ ReturnFiles

SpecParse == InitParse /\ [][NextParse]_vars

\* the process computes the function
ParseAgrees == pc = "parsed" => files = parseDiff(diff)

-----------------------------------------------------------------------------
(* The unified-diff format, read without the parser: what a block of a     *)
(* well-formed diff says about its own lines.                              *)

Last(seq) == seq[Len(seq)]

\* "<start>[,<count>]" at position p of a hunk header; the count defaults to 1
ReadRange(line, p) ==
    LET e == DigitsEnd(line, p)
        e2 == DigitsEnd(line, e + 1)
    IN  IF At(line, e) = ","
        THEN [start |-> parseInt(Slice(line, p, e - 1)),
              count |-> parseInt(Slice(line, e + 1, e2 - 1)), next |-> e2]
        ELSE [start |-> parseInt(Slice(line, p, e - 1)), count |-> 1, next |-> e]

DeclaredOld(line) == ReadRange(line, 5)
DeclaredNew(line) == ReadRange(line, DeclaredOld(line).next + 2)

IsHunkHead(line) == startsWith(line, "@@ -")

\* the header of the hunk that line j of block L lies in (0: before any hunk)
HunkHeadOf(L, j) ==
    LET heads == {h \in 1..(j - 1) : IsHunkHead(L[h])}
    IN  IF heads = {} THEN 0 ELSE CHOOSE h \in heads : \A k \in heads : k <= h

\* line j of block L is a content line of a hunk
InHunkBody(L, j) ==
    /\ HunkHeadOf(L, j) > 0
    /\ ~IsHunkHead(L[j])
    /\ At(L[j], 1) \in {"+", "-", " "}

\* the lines of the hunk headed at h: up to the next header or the block's end
HunkLines(L, h) == {j \in (h + 1)..Len(L) : HunkHeadOf(L, j) = h /\ ~IsHunkHead(L[j])}

\* every line after the first hunk header is a header, a content line, the
\* no-newline marker or the empty string after the text's last line break, and
\* every hunk holds as many old and new lines as its header declares
WellFormedBlock(L) ==
    /\ startsWith(L[1], " a/") /\ includes(L[1], " b/")
    /\ \A j \in 2..Len(L) :
          HunkHeadOf(L, j) > 0 =>
              \/ IsHunkHead(L[j])
              \/ At(L[j], 1) \in {"+", "-", " ", "\\"}
              \/ (j = Len(L) /\ L[j] = "")
    /\ \A h \in 1..Len(L) :
          IsHunkHead(L[h]) =>
              /\ DeclaredOld(L[h]).count = Cardinality({j \in HunkLines(L, h) : InOld(L[j])})
              /\ DeclaredNew(L[h]).count = Cardinality({j \in HunkLines(L, h) : InNew(L[j])})

\* the number of content line j in the old and in the new file
ActualOld(L, j) ==
    LET h == HunkHeadOf(L, j)
    IN  DeclaredOld(L[h]).start + Cardinality({i \in (h + 1)..(j - 1) : InOld(L[i])})

ActualNew(L, j) ==
    LET h == HunkHeadOf(L, j)
    IN  DeclaredNew(L[h]).start + Cardinality({i \in (h + 1)..(j - 1) : InNew(L[i])})

\* the parser emitted a LineChange for this line
Emits(line) == isAdditionLine(line) \/ isDeletionLine(line) \/ isContextLine(line)

\* the block being scanned and the line scanned last
CurBlock == hunks[hunkIdx]
Scanned == lineIdx - 1
Scanning == pc = "lines" /\ lineIdx > 1

-----------------------------------------------------------------------------
(* Claims on parseDiff, under SpecParse.                                   *)

\* C1: in a well-formed diff, every LineChange emitted for a hunk line carries
\* the line's actual number: in the new file for an addition or a context
\* line, in the old file for a deletion.
C1_ActualLineNumbers ==
    (Scanning /\ WellFormedBlock(CurBlock) /\ InHunkBody(CurBlock, Scanned)
        /\ Emits(CurBlock[Scanned]))
    => LET ch == Last(cursor.changes)
       IN  ch.lineNumber = IF ch.type = "deletion" THEN ActualOld(CurBlock, Scanned)
                           ELSE ActualNew(CurBlock, Scanned)

\* the '+' and '-' content lines of the hunks of a diff
MarkedLines(bs, mark) ==
    UNION {{<<k, j>> : j \in {i \in 1..Len(bs[k]) :
                                InHunkBody(bs[k], i) /\ At(bs[k][i], 1) = mark}}
           : k \in 1..Len(bs)}

RECURSIVE SumOf(_, _)
SumOf(seq, field) ==
    IF seq = <<>> THEN 0 ELSE Head(seq)[field] + SumOf(Tail(seq), field)

AllWellFormed == \A k \in 1..Len(hunks) : WellFormedBlock(hunks[k])

\* C2: the additions of all FileChanges sum to the number of '+' content lines
\* of the diff's hunks, the deletions to the number of '-' content lines.
C2_CountsMatchDiff ==
    (pc = "parsed" /\ AllWellFormed)
    => /\ SumOf(files, "additions") = Cardinality(MarkedLines(hunks, "+"))
       /\ SumOf(files, "deletions") = Cardinality(MarkedLines(hunks, "-"))

CountType(changes, t) == Cardinality({i \in 1..Len(changes) : changes[i].type = t})

\* C3: every FileChange has additions = the number of its changes of type
\* addition, and deletions = the number of its changes of type deletion.
C3_CountsMatchChanges ==
    \A i \in 1..Len(files) :
        /\ files[i].additions = CountType(files[i].changes, "addition")
        /\ files[i].deletions = CountType(files[i].changes, "deletion")

C3_Witness ==
    /\ pc = "parsed"
    /\ \E i \in 1..Len(files) :
          /\ files[i].additions >= 2 /\ files[i].deletions >= 1
          /\ CountType(files[i].changes, "context") >= 1

\* the line of block L that the n-th LineChange was emitted for
RECURSIVE EmitLine(_, _, _)
EmitLine(L, n, from) ==
    IF Emits(L[from]) THEN (IF n = 1 THEN from ELSE EmitLine(L, n - 1, from + 1))
    ELSE EmitLine(L, n, from + 1)

\* the number of "@@" lines before line j: the hunk that line j lies in
HunkNo(L, j) == Cardinality({h \in 1..(j - 1) : startsWith(L[h], "@@")})

\* C4: within one hunk, the line numbers of the LineChanges of each type are
\* strictly increasing in the order of the diff.
C4_IncreasingInHunk ==
    Scanning =>
        \A a, b \in 1..Len(cursor.changes) :
            (/\ a < b
             /\ cursor.changes[a].type = cursor.changes[b].type
             /\ HunkNo(CurBlock, EmitLine(CurBlock, a, 1)) = HunkNo(CurBlock, EmitLine(CurBlock, b, 1)))
            => cursor.changes[a].lineNumber < cursor.changes[b].lineNumber

C4_Witness ==
    /\ Scanning
    /\ \E a, b, c \in 1..Len(cursor.changes) :
          /\ a < b /\ b < c
          /\ cursor.changes[a].type = "addition"
          /\ cursor.changes[b].type = "context"
          /\ cursor.changes[c].type = "addition"
          /\ HunkNo(CurBlock, EmitLine(CurBlock, a, 1)) = 1
          /\ HunkNo(CurBlock, EmitLine(CurBlock, c, 1)) = 1
          /\ cursor.changes[c].lineNumber = cursor.changes[a].lineNumber + 2

\* a header line of the form "diff --git a/<old-path> b/<new-path>"; a path
\* holds no carriage return
HeaderOk(line) ==
    /\ startsWith(line, "diff --git a/")
    /\ \E i \in 14..Len(line) : Slice(line, i, i + 2) = " b/"
    /\ ~includes(line, "\r")

\* the new path named by such a header line: what follows the first " b/"
HeaderNewPath(line) ==
    LET i == CHOOSE k \in 14..Len(line) :
                 /\ Slice(line, k, k + 2) = " b/"
                 /\ \A m \in 14..(k - 1) : Slice(line, m, m + 2) # " b/"
    IN  Slice(line, i + 3, Len(line))

\* the positions in d of the header lines that match, in the order of the diff
RECURSIVE GoodStarts(_, _)
GoodStarts(d, i) ==
    IF i > Len(d) THEN <<>>
    ELSE IF HeaderOk(d[i]) THEN <<i>> \o GoodStarts(d, i + 1)
    ELSE GoodStarts(d, i + 1)

\* the text of the block that starts at line s of d, taken alone
BlockAlone(d, s) ==
    LET later == {i \in (s + 1)..Len(d) : startsWith(d[i], "diff --git")}
    IN  IF later = {} THEN SubSeq(d, s, Len(d))
        ELSE SubSeq(d, s, (CHOOSE i \in later : \A k \in later : i <= k) - 1) \o <<"">>

\* C5: the text before the first "diff --git" line and the blocks whose header
\* does not match yield no FileChange; every other block yields its
\* FileChange, the one it yields when parsed alone, in the order of the diff.
C5_BadBlocksDropped ==
    pc = "parsed" =>
        LET good == GoodStarts(diff, 1)
        IN  /\ Len(files) = Len(good)
            /\ \A k \in 1..Len(good) :
                  /\ files[k].fileName = HeaderNewPath(diff[good[k]])
                  /\ <<files[k]>> = parseDiff(BlockAlone(diff, good[k]))

\* a block that describes a rename without content change
IsPureRename(raw) ==
    /\ \E i \in 1..Len(raw) : startsWith(raw[i], "rename from ")
    /\ \E i \in 1..Len(raw) : startsWith(raw[i], "rename to ")
    /\ \A i \in 1..Len(raw) : ~startsWith(raw[i], "@@")

\* C6: a block that describes a rename with no content change yields a
\* FileChange whose changes are empty.
C6_RenameHasNoChanges ==
    \A i \in 1..Len(files) :
        IsPureRename(files[i].rawDiff) => files[i].changes = <<>>

-----------------------------------------------------------------------------
(* Reviewed diffs: the inputs of analyzeDiff.                              *)

RECURSIVE Repeat(_, _)
Repeat(str, n) ==
    IF n = 0 THEN ""
    ELSE IF n % 2 = 1 THEN str \o Repeat(str, n - 1)
    ELSE Repeat(str \o str, n \div 2)

\* one file block of a diff: the headers git prints and one hunk
ReviewBlock(name, body) ==
    <<"diff --git a/" \o name \o " b/" \o name, "index 1a2b3c4..5d6e7f8 100644",
      "--- a/" \o name, "+++ b/" \o name>> \o HunkText(1, 1, body)

AppBlock ==
    ReviewBlock("src/app.ts",
        <<"+// TODO: load from env", "+const API_KEY = \"sk-12345\";", "-const k = 1;">>)

DbBlock ==
    ReviewBlock("src/Db.JS",
        <<" function load(p) {", "+  if (p == null) return fs.readFileSync(p);",
          "+  while (true) { n += 'x'; }">>)

TestBlock ==
    ReviewBlock("test/app.test.ts",
        <<"-it('works');", "+const token = 'abc';", "+items[0].run();">>)

ReadmeBlock ==
    ReviewBlock("README.MD", <<"-old text", "+" \o Repeat("#", MaxLineLength + 1)>>)

BackupBlock ==
    ReviewBlock("lib/util.ts.bak", <<"+password: \"hunter2\"", "+fixme later", "-pass">>)

ReviewBlocks == {AppBlock, DbBlock, TestBlock, ReadmeBlock, BackupBlock}

ReviewInputs == {Flatten(bs) \o <<"">> : bs \in SeqsUpTo(ReviewBlocks, MaxFiles)}

ExtensionChoices == {Undefined, Some(<<>>), Some(<<".TS", ".js">>), Some(<<".md">>)}

ExcludeChoices == {Undefined, Some(<<>>), Some(<<"Test">>), Some(<<".bak", "readme">>)}

OptionChoices ==
    {[fileExtensions |-> e, excludePatterns |-> x, reviewPrompt |-> ""] :
        <<e, x>> \in ExtensionChoices \X ExcludeChoices}

-----------------------------------------------------------------------------
(* analyzeDiff as a process: parse and filter; for each file of the loop    *)
(* a step up to the await of analyzeFileChange and a step after it; a      *)
(* step up to the await of generateSummary, then the sort and the return.  *)

Init ==
    /\ diff \in ReviewInputs
    /\ options \in OptionChoices
    /\ pc = "analyze"
    /\ hunks = <<>>
    /\ hunkIdx = 0
    /\ lineIdx = 0
    /\ cursor = InitCursor
    /\ files = <<>>
    /\ filteredFiles = <<>>
    /\ fileIdx = 0
    /\ issues = <<>>
    /\ totals = [added |-> 0, removed |-> 0]
    /\ result = NoResult
    /\ ServerIdle
    /\ snippet = NoSnippet
    /\ awaited = NoAwaited

parseVars == <<hunks, hunkIdx, lineIdx, cursor>>

\* const parsedDiff = this.parseDiff(diff); const filteredFiles = this.filterFiles(...)
ParseAndFilter ==
    /\ pc = "analyze"
    /\ files' = parseDiff(diff)
    /\ filteredFiles' = filterFiles(files', options.fileExtensions, options.excludePatterns)
    /\ issues' = <<>>
    /\ totals' = [added |-> 0, removed |-> 0]
    /\ fileIdx' = 1
    /\ pc' = "files"
    /\ UNCHANGED <<diff, options, parseVars, result, serverVars, snippet, awaited>>

\* an iteration of for (const fileChange of filteredFiles), up to its await:
\* the totals, and the call of analyzeFileChange
AnalyzeFile ==
    /\ pc = "files" /\ fileIdx <= Len(loopFiles(files, filteredFiles))
    /\ LET fileChange == loopFiles(files, filteredFiles)[fileIdx]
       IN  /\ totals' = [added |-> totals.added + fileChange.additions,
                         removed |-> totals.removed + fileChange.deletions]
           /\ awaited' = [NoAwaited EXCEPT !.fileIssues =
                             analyzeFileChange(fileChange, resolvePrompt(options.reviewPrompt))]
    /\ pc' = "awaitFile"
    /\ UNCHANGED <<diff, options, parseVars, files, filteredFiles, fileIdx, issues, result,
                   serverVars, snippet>>

\* the iteration after its await: issues.push(...fileIssues)
PushIssues ==
    /\ pc = "awaitFile"
    /\ issues' = issues \o awaited.fileIssues
    /\ fileIdx' = fileIdx + 1
    /\ awaited' = NoAwaited
    /\ pc' = "files"
    /\ UNCHANGED <<diff, options, parseVars, files, filteredFiles, totals, result,
                   serverVars, snippet>>

\* after the loop: the call of generateSummary, with the issues as found
GenerateSummary ==
    /\ pc = "files" /\ fileIdx > Len(loopFiles(files, filteredFiles))
    /\ awaited' = [NoAwaited EXCEPT !.summary =
                      generateSummary(filteredFiles, issues,
                                      resolvePrompt(options.reviewPrompt))]
    /\ pc' = "awaitSummary"
    /\ UNCHANGED <<diff, options, parseVars, files, filteredFiles, fileIdx, issues, totals,
                   result, serverVars, snippet>>

\* after the await of the summary: the sort of the issues in place, and the
\* return
ReturnResult ==
    /\ pc = "awaitSummary"
    /\ issues' = sortIssues(issues)
    /\ result' = [filesChanged |-> Len(filteredFiles),
                  linesAdded |-> totals.added,
                  linesRemoved |-> totals.removed,
                  issues |-> issues',
                  summary |-> awaited.summary]
    /\ awaited' = NoAwaited
    /\ pc' = "done"
    /\ UNCHANGED <<diff, options, parseVars, files, filteredFiles, fileIdx, totals,
                   serverVars, snippet>>

Next ==
    \/ ParseAndFilter
    \/ AnalyzeFile
    \/ PushIssues
    \/ GenerateSummary
    \/ ReturnResult

Spec == Init /\ [][Next]_vars

-----------------------------------------------------------------------------
(* The filter, the sort, the counts and the summary, as the specification  *)
(* states them.                                                            *)

\* a and b are equal up to the case of their letters
EqualsCI(a, b) ==
    /\ Len(a) = Len(b)
    /\ \A i \in 1..Len(a) : LowerChar(SubSeq(a, i, i)) = LowerChar(SubSeq(b, i, i))

EndsWithCI(name, ext) ==
    Len(ext) <= Len(name) /\ EqualsCI(SubSeq(name, Len(name) - Len(ext) + 1, Len(name)), ext)

ContainsCI(name, pat) ==
    \E i \in 1..(Len(name) - Len(pat) + 1) : EqualsCI(SubSeq(name, i, i + Len(pat) - 1), pat)

\* a list that is given and not empty
Constrains(list) == list.defined /\ list.value # <<>>

PassesExtensions(name, opts) ==
    Constrains(opts.fileExtensions) =>
        \E i \in 1..Len(opts.fileExtensions.value) :
            EndsWithCI(name, opts.fileExtensions.value[i])

PassesExcludes(name, opts) ==
    Constrains(opts.excludePatterns) =>
        \A i \in 1..Len(opts.excludePatterns.value) :
            ~ContainsCI(name, opts.excludePatterns.value[i])

\* the indices of the parsed files that survive the filter
Survivors ==
    {i \in 1..Len(files) :
        PassesExtensions(files[i].fileName, options) /\ PassesExcludes(files[i].fileName, options)}

Filtered == pc \in {"files", "awaitFile", "awaitSummary", "done"}

\* C7: the filter returns exactly the files that end (ignoring case) with one
\* of the extensions, when extensions are given, and contain (ignoring case)
\* none of the exclude patterns, when patterns are given, in input order
C7_FilterKeepsSubsequence ==
    Filtered =>
        /\ Len(filteredFiles) = Cardinality(Survivors)
        /\ \A i \in Survivors :
              filteredFiles[Cardinality({j \in Survivors : j <= i})] = files[i]

\* both lists constrain; a file is kept through an extension that differs in
\* case, a later file has a listed extension and is dropped by a pattern
C7_Witness ==
    /\ Filtered
    /\ Constrains(options.fileExtensions) /\ Constrains(options.excludePatterns)
    /\ \E i, j \in 1..Len(files) :
          /\ i < j
          /\ i \in Survivors
          /\ ~\E k \in 1..Len(options.fileExtensions.value) :
                  endsWith(files[i].fileName, options.fileExtensions.value[k])
          /\ PassesExtensions(files[j].fileName, options)
          /\ ~PassesExcludes(files[j].fileName, options)
          /\ filteredFiles = <<files[i]>>

SeverityWeight(severity) ==
    CASE severity = "critical" -> 4 [] severity = "major" -> 3
      [] severity = "minor" -> 2 [] severity = "info" -> 1

\* the place of the i-th emitted issue in the result: after the issues of a
\* higher weight and after the issues of its own weight emitted before it
StablePlace(emitted, i) ==
    Cardinality({j \in 1..Len(emitted) :
        SeverityWeight(emitted[j].severity) > SeverityWeight(emitted[i].severity)})
    + Cardinality({j \in 1..i :
        SeverityWeight(emitted[j].severity) = SeverityWeight(emitted[i].severity)})

\* C8: the issues of the result are the emitted issues, by severity weight
\* descending, issues of one severity in the order of their emission
C8_StableSeveritySort ==
    [][(pc = "awaitSummary" /\ pc' = "done") =>
          /\ Len(result'.issues) = Len(issues)
          /\ \A i \in 1..Len(issues) :
                result'.issues[StablePlace(issues, i)] = issues[i]]_vars

\* the issues in the order of emission: file order, then detector order
Emitted ==
    Flatten([k \in 1..Len(filteredFiles) |->
                analyzeFileChange(filteredFiles[k], resolvePrompt(options.reviewPrompt))])

\* a result whose issues were emitted in another order, with two issues of
\* one severity from different files
C8_Witness ==
    /\ pc = "done"
    /\ Len(result.issues) >= 3
    /\ result.issues # Emitted
    /\ \E i, j \in 1..Len(result.issues) :
          /\ i < j
          /\ result.issues[i].severity = result.issues[j].severity
          /\ result.issues[i].file # result.issues[j].file

RECURSIVE SurvivorSum(_, _)
SurvivorSum(n, field) ==
    IF n = 0 THEN 0
    ELSE (IF n \in Survivors THEN files[n][field] ELSE 0) + SurvivorSum(n - 1, field)

\* C9: filesChanged counts the files that survive the filter, linesAdded and
\* linesRemoved sum their additions and deletions, and every issue names one
\* of them; a file the filter removed adds to no count and has no issue
C9_CountsOverSurvivors ==
    pc = "done" =>
        /\ result.filesChanged = Cardinality(Survivors)
        /\ result.linesAdded = SurvivorSum(Len(files), "additions")
        /\ result.linesRemoved = SurvivorSum(Len(files), "deletions")
        /\ \A k \in 1..Len(result.issues) :
              /\ \E i \in Survivors : files[i].fileName = result.issues[k].file
              /\ \A i \in (1..Len(files)) \ Survivors :
                    files[i].fileName # result.issues[k].file

\* a result for a diff of which one file with added and removed lines and
\* with issues of its own was removed, and one with issues survived
C9_Witness ==
    /\ pc = "done"
    /\ result.filesChanged = 1 /\ Len(files) = 2
    /\ result.issues # <<>>
    /\ \E i \in (1..Len(files)) \ Survivors :
          /\ files[i].additions > 0 /\ files[i].deletions > 0
          /\ analyzeFileChange(files[i], resolvePrompt(options.reviewPrompt)) # <<>>

CountOf(iss, severity) == Cardinality({k \in 1..Len(iss) : iss[k].severity = severity})

\* the lines of the summary that start with "- "
BandLines(summary) ==
    {i \in 1..Len(summary) : Slice(summary, i, i + 2) = "\n- "}

\* C10: the summary holds the success message iff there is no issue; else it
\* states the number of issues, holds a line with the number of critical
\* issues iff there is one, a line with the number of major issues iff there
\* is one, and no line for minor or info issues
C10_SummaryBands ==
    pc = "done" =>
        LET summary == result.summary
            total == Len(result.issues)
            critical == CountOf(result.issues, "critical")
            major == CountOf(result.issues, "major")
        IN  /\ includes(summary, "No significant issues were found") <=> total = 0
            /\ total > 0 =>
                  /\ includes(summary, "Found " \o numToString(total) \o " issues:\n")
                  /\ includes(summary, " critical issues") <=> critical > 0
                  /\ critical > 0 =>
                        includes(summary, " " \o numToString(critical) \o " critical issues\n")
                  /\ includes(summary, " major issues") <=> major > 0
                  /\ major > 0 =>
                        includes(summary, " " \o numToString(major) \o " major issues\n")
                  /\ ~includes(summary, "minor") /\ ~includes(summary, "info")
                  /\ Cardinality(BandLines(summary))
                        = (IF critical > 0 THEN 1 ELSE 0) + (IF major > 0 THEN 1 ELSE 0)

\* a summary of issues of all four severities
C10_Witness ==
    /\ pc = "done"
    /\ \A severity \in {"critical", "major", "minor", "info"} :
          CountOf(result.issues, severity) > 0
    /\ includes(result.summary, "critical") /\ includes(result.summary, "major")

-----------------------------------------------------------------------------
(* The detectors on their own: analyzeDiff, without options, on diffs of   *)
(* one or two files written for the detection rules.                       *)

LoopLine == "while (true) {"

SecretLine == "const API_KEY = \"sk-12345\";"

LoopTsBlock == ReviewBlock("src/loop.ts", <<"+" \o LoopLine>>)

LoopPyBlock == ReviewBlock("tools/loop.py", <<"+" \o LoopLine, "+    pass">>)

LoopTsxBlock == ReviewBlock("web/View.tsx", <<" let n = 0;", "+" \o LoopLine>>)

SecretBlock == ReviewBlock("src/keys.ts", <<"+" \o SecretLine>>)

SecretAfterQuoteBlock ==
    ReviewBlock("src/env.ts", <<"+// don't commit", "+" \o SecretLine>>)

SecretPropertyBlock == ReviewBlock("src/config.js", <<"+config.password = \"abc\";">>)

JsDocBlock == ReviewBlock("src/math.ts", <<"+/**", "+ */", "+function f(a, b) {}">>)

RemovedBlock ==
    ReviewBlock("src/old.ts",
        <<"-const SECRET_KEY = \"x\";", " while (true) {", "-// TODO: remove">>)

MixedBlock ==
    ReviewBlock("src/mixed.js", <<"-while (true) {", "+let n = 0;", " const token = 'abc';">>)

MakefileBlock == ReviewBlock("Makefile", <<"+# FIXME: flags", "-# flags">>)

\* a line replaced by another: the removed and the added line carry one number
ReplacedBlock == ReviewBlock("tools/poll.py", <<"-while (busy) {", "+" \o LoopLine>>)

\* a condition that assigns, and conditions that only compare
AssignBlock == ReviewBlock("tools/assign.py", <<"+if (x = 5) {">>)

CompareBlock == ReviewBlock("tools/compare.py", <<"+if (x == 5) {", "+if (x === 5) {">>)

\* a property access inside a try block, and one inside an if block
TryBlock ==
    ReviewBlock("tools/send.py", <<"+try {", "+  send(user.name);", "+} catch (e) {}">>)

IfBlock == ReviewBlock("tools/show.py", <<"+if (ready) {", "+  show(user.name);", "+}">>)

\* a statement added after an added return
ReturnBlock == ReviewBlock("tools/total.py", <<"+return total;", "+log(total);">>)

DetectBlocks ==
    {LoopTsBlock, LoopPyBlock, LoopTsxBlock, SecretBlock, SecretAfterQuoteBlock,
     SecretPropertyBlock, JsDocBlock, RemovedBlock, MixedBlock, MakefileBlock,
     ReplacedBlock, AssignBlock, CompareBlock, TryBlock, IfBlock, ReturnBlock,
     AppBlock, DbBlock, TestBlock}

\* the diffs of one file, and of two different files
DetectInputs ==
    {b \o <<"">> : b \in DetectBlocks}
    \cup {b[1] \o b[2] \o <<"">> : b \in {c \in DetectBlocks \X DetectBlocks : c[1] # c[2]}}

InitDetect ==
    /\ diff \in DetectInputs
    /\ options = NoOptions
    /\ pc = "analyze"
    /\ hunks = <<>>
    /\ hunkIdx = 0
    /\ lineIdx = 0
    /\ cursor = InitCursor
    /\ files = <<>>
    /\ filteredFiles = <<>>
    /\ fileIdx = 0
    /\ issues = <<>>
    /\ totals = [added |-> 0, removed |-> 0]
    /\ result = NoResult
    /\ ServerIdle
    /\ snippet = NoSnippet
    /\ awaited = NoAwaited

SpecDetect == InitDetect /\ [][Next]_vars

-----------------------------------------------------------------------------
(* The detectors, as the specification states them.  A step of the loop    *)
(* over the files analyses one FileChange and appends the issues produced  *)
(* for it.                                                                 *)

\* the step ends the analysis of the file at fileIdx: its issues are pushed
Analyzes == pc = "awaitFile" /\ fileIdx' = fileIdx + 1

Analyzed == filteredFiles[fileIdx]

\* the issues the step produced for the file
Produced == SubSeq(issues', Len(issues) + 1, Len(issues'))

\* the added lines of a FileChange
AddedChanges(fileChange) ==
    {fileChange.changes[k] : k \in {i \in 1..Len(fileChange.changes) :
                                        fileChange.changes[i].type = "addition"}}

\* the positions in iss of the issues anchored at a line
AnchoredAt(iss, lineNumber) == {i \in 1..Len(iss) : iss[i].line = lineNumber}

\* C12: every issue produced for a FileChange carries the name of that file
\* and the line number of one of its added lines; a FileChange without
\* additions yields no issue
C12_OnlyAddedLines ==
    [][Analyzes =>
          LET added == {c.lineNumber : c \in AddedChanges(Analyzed)}
          IN  /\ \A i \in 1..Len(Produced) :
                    /\ Produced[i].file = Analyzed.fileName
                    /\ Produced[i].line \in added
              /\ added = {} => Produced = <<>>]_vars

\* a review of two files: one with issues and with lines that are not
\* additions, one with changes but without additions
C12_Witness ==
    /\ pc = "done"
    /\ \E k \in 1..Len(filteredFiles) :
          /\ AddedChanges(filteredFiles[k]) # {}
          /\ \E i \in 1..Len(filteredFiles[k].changes) :
                filteredFiles[k].changes[i].type # "addition"
          /\ \E i \in 1..Len(result.issues) :
                result.issues[i].file = filteredFiles[k].fileName
    /\ \E k \in 1..Len(filteredFiles) :
          /\ AddedChanges(filteredFiles[k]) = {}
          /\ filteredFiles[k].changes # <<>>

\* added lines that assign a quoted literal to a name holding password,
\* secret, key or token, with the text of the literal
SecretAssignments ==
    {[content |-> SecretLine, literal |-> "sk-12345"],
     [content |-> "config.password = \"abc\";", literal |-> "abc"],
     [content |-> "const token = 'abc';", literal |-> "abc"],
     [content |-> "password: \"hunter2\"", literal |-> "hunter2"]}

\* C13: an added line that assigns a quoted literal to a name holding
\* password, secret, key or token yields exactly one issue, critical, titled
\* as a hardcoded secret, whose snippet does not show the text of the literal
C13_OneMaskedSecretIssue ==
    [][Analyzes =>
          \A c \in AddedChanges(Analyzed) : \A s \in SecretAssignments :
              c.content = s.content =>
                  LET at == AnchoredAt(Produced, c.lineNumber)
                  IN  /\ Cardinality(at) = 1
                      /\ \A i \in at :
                            /\ Produced[i].severity = "critical"
                            /\ includes(toLowerCase(Produced[i].title), "hardcoded secret")
                            /\ ~includes(Produced[i].codeSnippet, s.literal)]_vars

\* C14: an added line "while (true) {" yields exactly one issue, major, for
\* the unconditional loop, whatever the file it is in
C14_OneLoopIssue ==
    [][Analyzes =>
          \A c \in AddedChanges(Analyzed) :
              c.content = LoopLine =>
                  LET at == AnchoredAt(Produced, c.lineNumber)
                  IN  /\ Cardinality(at) = 1
                      /\ \A i \in at :
                            /\ Produced[i].severity = "major"
                            /\ includes(toLowerCase(Produced[i].title), "infinite loop")]_vars

\* the language of a file name: mapped from a known extension, else generic
LanguageOf(fileName) ==
    LET ext == getFileExtension(fileName)
    IN  IF ext \in DOMAIN languageMap THEN languageMap[ext] ELSE "text"

\* C15: every issue carries a language: the one mapped from the extension of
\* its file when that is known, the generic tag otherwise; never none
C15_EveryIssueHasLanguage ==
    [][Analyzes =>
          \A i \in 1..Len(Produced) :
              /\ Produced[i].language # undefined
              /\ Produced[i].language = LanguageOf(Analyzed.fileName)]_vars

\* C16: of one rule (one issue title) at most one issue is anchored at one
\* added line
C16_OneIssuePerRuleAndLine ==
    [][Analyzes =>
          \A i, j \in 1..Len(Produced) :
              (/\ Produced[i].title = Produced[j].title
               /\ Produced[i].line = Produced[j].line) => i = j]_vars

-----------------------------------------------------------------------------
(* analyzeDiff as a function, and the report of the tool layer.            *)

RECURSIVE toUpperCase(_)
toUpperCase(str) ==
    IF Len(str) = 0 THEN ""
    ELSE IF Len(str) = 1
    THEN (LET k == indexOfFrom(LowerChars, str, 1)
          IN  IF k > 0 THEN SubSeq(UpperChars, k, k) ELSE str)
    ELSE toUpperCase(SubSeq(str, 1, Len(str) \div 2))
         \o toUpperCase(SubSeq(str, Len(str) \div 2 + 1, Len(str)))

\* analyzeDiff from the end of its loop on: the summary, the sort and the
\* ReviewResult
reviewResult(filtered, looped, emitted, prompt) ==
    [filesChanged |-> Len(filtered),
     linesAdded |-> sumAdditions(looped),
     linesRemoved |-> sumDeletions(looped),
     issues |-> sortIssues(emitted),
     summary |-> generateSummary(filtered, emitted, prompt)]

\* analyzeDiff from its loop on: the issues of the files, in the order of the files
analyzeFiles(filtered, looped, prompt) ==
    reviewResult(filtered, looped,
                 Flatten([k \in 1..Len(looped) |-> analyzeFileChange(looped[k], prompt)]),
                 prompt)

\* analyzeDiff after parseDiff
analyzeParsed(parsedDiff, opts) ==
    analyzeFiles(filterFiles(parsedDiff, opts.fileExtensions, opts.excludePatterns),
                 loopFiles(parsedDiff,
                           filterFiles(parsedDiff, opts.fileExtensions, opts.excludePatterns)),
                 resolvePrompt(opts.reviewPrompt))

\* CodeReviewer.analyzeDiff(diff, diffSummary, options)
analyzeDiff(d, opts) == analyzeParsed(parseDiff(d), opts)

\* a call of analyzeDiff in flight: its locals, the promise it awaits and
\* the result it returns
NoAnalysis ==
    [pc |-> "none", filteredFiles |-> <<>>, prompt |-> "", fileIdx |-> 0,
     issues |-> <<>>, totals |-> [added |-> 0, removed |-> 0], awaited |-> NoAwaited,
     result |-> NoResult]

\* analyzeDiff from the head of its loop to the next await: the totals and
\* the call of analyzeFileChange, or after the loop the call of generateSummary
analysisToAwait(a) ==
    IF a.fileIdx <= Len(a.filteredFiles)
    THEN [a EXCEPT !.pc = "awaitFile",
                   !.totals = [added |-> @.added + a.filteredFiles[a.fileIdx].additions,
                               removed |-> @.removed + a.filteredFiles[a.fileIdx].deletions],
                   !.awaited = [NoAwaited EXCEPT !.fileIssues =
                                   analyzeFileChange(a.filteredFiles[a.fileIdx], a.prompt)]]
    ELSE [a EXCEPT !.pc = "awaitSummary",
                   !.awaited = [NoAwaited EXCEPT !.summary =
                                   generateSummary(a.filteredFiles, a.issues, a.prompt)]]

\* analyzeDiff from its entry to its first await
startAnalyzeDiff(d, opts) ==
    analysisToAwait([NoAnalysis EXCEPT
        !.filteredFiles = loopFiles(parseDiff(d),
                                    filterFiles(parseDiff(d), opts.fileExtensions,
                                                opts.excludePatterns)),
        !.prompt = resolvePrompt(opts.reviewPrompt),
        !.fileIdx = 1])

\* analyzeDiff from the await it stands at to the next one, or to its return
resumeAnalyzeDiff(a) ==
    IF a.pc = "awaitFile"
    THEN analysisToAwait([a EXCEPT !.issues = @ \o a.awaited.fileIssues,
                                   !.fileIdx = @ + 1,
                                   !.awaited = NoAwaited])
    ELSE [a EXCEPT !.pc = "returned",
                   !.issues = sortIssues(@),
                   !.awaited = NoAwaited,
                   !.result = [filesChanged |-> Len(a.filteredFiles),
                               linesAdded |-> a.totals.added,
                               linesRemoved |-> a.totals.removed,
                               issues |-> sortIssues(a.issues),
                               summary |-> a.awaited.summary]]

\* the backquote, which a string of this module cannot hold
Tick == "[tick]"

\* the callback of result.issues.forEach in formatReviewResult
formatIssue(issue, index) ==
    "### " \o numToString(index) \o ". " \o toUpperCase(issue.severity) \o ": "
        \o issue.title \o "\n\n"
    \o "**File:** " \o Tick \o issue.file \o Tick \o "\n"
    \o (IF issue.line # 0 THEN "**Line:** " \o numToString(issue.line) \o "\n" ELSE "")
    \o "**Description:** " \o issue.description \o "\n\n"
    \o (IF truthy(issue.suggestion)
        THEN "**Suggestion:** " \o issue.suggestion \o "\n\n" ELSE "")
    \o (IF truthy(issue.codeSnippet)
        THEN "**Code:**\n" \o Tick \o Tick \o Tick \o (IF truthy(issue.language) THEN issue.language ELSE "")
             \o "\n" \o issue.codeSnippet \o "\n" \o Tick \o Tick \o Tick \o "\n\n"
        ELSE "")
    \o "---\n\n"

RECURSIVE formatIssues(_, _)
formatIssues(iss, index) ==
    IF index > Len(iss) THEN ""
    ELSE formatIssue(iss[index], index) \o formatIssues(iss, index + 1)

\* CodeReviewMCPServer.formatReviewResult
formatReviewResult(res) ==
    "# Code Review Report\n\n"
    \o "**Review Summary:**\n"
    \o "- Files Changed: " \o numToString(res.filesChanged) \o "\n"
    \o "- Lines Added: " \o numToString(res.linesAdded) \o "\n"
    \o "- Lines Removed: " \o numToString(res.linesRemoved) \o "\n"
    \o "- Issues Found: " \o numToString(Len(res.issues)) \o "\n\n"
    \o (IF Len(res.issues) > 0
        THEN "## Issues and Recommendations\n\n" \o formatIssues(res.issues, 1) ELSE "")
    \o (IF truthy(res.summary)
        THEN "## Overall Assessment\n\n" \o res.summary \o "\n\n" ELSE "")

\* the process computes the function
AnalyzeAgrees == pc = "done" => result = analyzeDiff(diff, options)

-----------------------------------------------------------------------------
(* The version-control client (simple-git) and the repositories it reads.  *)
(* A call is bound to the repository of the client it is made on; it       *)
(* fails when one of its refs is not in that repository.                   *)

HomeRepo == "."
OtherRepo == "/srv/other"
Repos == {HomeRepo, OtherRepo}

RefsOf(repo) ==
    IF repo = HomeRepo THEN {"HEAD", "v1", "feature", "origin/main"}
    ELSE IF repo = OtherRepo THEN {"HEAD", "v1", "v2", "topic", "origin/master"}
    ELSE {}

\* git branch -r
RemoteBranches(repo) ==
    IF repo = HomeRepo THEN {"origin/main"}
    ELSE IF repo = OtherRepo THEN {"origin/master"}
    ELSE {}

\* git diff: the text of the changes of a repository
RepoDiff(repo) ==
    IF repo = HomeRepo THEN AppBlock \o <<"">> ELSE BackupBlock \o <<"">>

\* a call of this.git.<op>(refs) made while this.git is the client of repo
gitCall(op, repo, refs) ==
    [op |-> op, repo |-> repo, refs |-> refs,
     ok |-> \A k \in 1..Len(refs) : refs[k] \in RefsOf(repo)]

\* the message of the error a failed call rejects with
gitErrorMessage(call) ==
    LET bad == {k \in 1..Len(call.refs) : call.refs[k] \notin RefsOf(call.repo)}
    IN  "fatal: bad revision '" \o call.refs[CHOOSE k \in bad : \A m \in bad : k <= m] \o "'"

-----------------------------------------------------------------------------
(* CodeReviewMCPServer: the handler of tool calls.  A request is a tool    *)
(* call in flight; it moves at the points where the handler awaits.        *)

\* request.params.arguments
NoArgs == [present |-> FALSE, from_commit |-> undefined, to_commit |-> undefined,
           repository_path |-> undefined, source_branch |-> undefined,
           target_branch |-> undefined, template_name |-> undefined]

NoResponse == [content |-> <<>>]

NoReviewOptions == [fromCommit |-> undefined, toCommit |-> undefined,
                    sourceBranch |-> undefined, targetBranch |-> undefined,
                    repositoryPath |-> undefined]

Request(tool, args) ==
    [tool |-> tool, args |-> args, pc |-> "pending", opts |-> NoReviewOptions,
     calls |-> <<>>, awaits |-> 0, thrown |-> FALSE, response |-> NoResponse]

textResponse(text) == [content |-> <<[type |-> "text", text |-> text]>>]

\* the catch clause of the handler
caught(req, message) ==
    [req EXCEPT !.pc = "done", !.thrown = TRUE,
                !.response = textResponse("Error: " \o message)]

\* return of a handle* method
returned_text(req, text) ==
    [req EXCEPT !.pc = "done", !.response = textResponse(text)]

\* const { x } = args, when args is undefined
destructureError(property) ==
    "Cannot destructure property '" \o property \o "' of 'args' as it is undefined."

\* a parameter with a default value
orDefault(value, default) == IF value = undefined THEN default ELSE value

\* await this.git.<op>(refs): the call is made on the client of the moment
awaitGit(req, g, op, refs, next) ==
    [req EXCEPT !.calls = Append(@, gitCall(op, g, refs)), !.pc = next]

lastCall(req) == req.calls[Len(req.calls)]

\* the one element of a set
TheOne(S) == CHOOSE x \in S : TRUE

\* the states of a call of analyzeDiff at its awaits, in order, and at its
\* return (each state is computed once, as an element of a set, before the
\* states after it are computed from it)
RECURSIVE analysisFrom(_)
analysisFrom(a) ==
    IF a.pc = "returned" THEN <<a>>
    ELSE <<a>> \o TheOne({analysisFrom(next) : next \in {resumeAnalyzeDiff(a)}})

\* analyzeDiff on the diff of each repository; the requests carry no prompt,
\* extensions or patterns.  The locals of a call are a function of the diff
\* and of the number of awaits it has reached: a request holds that number
Analyses ==
    [repo \in Repos |->
        TheOne({analysisFrom(first) :
                   first \in {startAnalyzeDiff(RepoDiff(repo), NoOptions)}})]

\* return this.analyzeDiff(diff, diffSummary, options): analyzeDiff up to
\* its first await
enterAnalyzeDiff(req) == [req EXCEPT !.pc = "analyze", !.awaits = 1]

\* analyzeDiff of the request from one await to the next, or to its return;
\* the handler of the request then stands at its own await
continueAnalyzeDiff(req, states) ==
    [req EXCEPT !.pc = IF states[req.awaits + 1].pc = "returned" THEN "result" ELSE "analyze",
                !.awaits = @ + 1]

\* the handler after its await: the report of the result
reviewReport(req, res) == returned_text(req, formatReviewResult(res))

\* a request inside analyzeDiff, or at the await of its handler, resumed;
\* states are the states of its call of analyzeDiff, on the diff the client
\* returned
afterAwait(req, states) ==
    IF req.pc = "analyze" THEN continueAnalyzeDiff(req, states)
    ELSE reviewReport(req, states[req.awaits].result)

\* handleReviewCommits and reviewCommits up to the first await: the request
\* and the client afterwards
startReviewCommits(req, g) ==
    LET opts == [NoReviewOptions EXCEPT
                    !.fromCommit = req.args.from_commit,
                    !.toCommit = orDefault(req.args.to_commit, "HEAD"),
                    !.repositoryPath = orDefault(req.args.repository_path, ".")]
    IN  IF ~req.args.present
        THEN [req |-> caught(req, destructureError("from_commit")), git |-> g]
        ELSE IF ~truthy(opts.fromCommit)
        THEN [req |-> caught([req EXCEPT !.opts = opts], "fromCommit is required"), git |-> g]
        ELSE [req |-> awaitGit([req EXCEPT !.opts = opts], opts.repositoryPath,
                               "show", <<opts.fromCommit>>, "show1"),
              git |-> opts.repositoryPath]

resumeReviewCommits_unvalidated(req, g) ==
    CASE req.pc = "show1" -> awaitGit(req, g, "show", <<req.opts.toCommit>>, "show2")
      [] req.pc = "show2" ->
            awaitGit(req, g, "diffSummary", <<req.opts.fromCommit, req.opts.toCommit>>, "summary")
      [] req.pc = "summary" ->
            awaitGit(req, g, "diff", <<req.opts.fromCommit, req.opts.toCommit>>, "diff")
      [] req.pc = "diff" ->
            IF ~lastCall(req).ok THEN caught(req, gitErrorMessage(lastCall(req)))
            ELSE enterAnalyzeDiff(req)
      [] req.pc \in {"analyze", "result"} -> afterAwait(req, Analyses[lastCall(req).repo])

\* reviewCommits from the await it stands at to the next one, or to its end
resumeReviewCommits(req, g) ==
    LET last == lastCall(req)
    IN  CASE req.pc = "show1" ->
                IF ~last.ok
                THEN caught(req, "Invalid commit reference: Error: " \o gitErrorMessage(last))
                ELSE awaitGit(req, g, "show", <<req.opts.toCommit>>, "show2")
          [] req.pc = "show2" ->
                IF ~last.ok
                THEN caught(req, "Invalid commit reference: Error: " \o gitErrorMessage(last))
                ELSE awaitGit(req, g, "diffSummary",
                              <<req.opts.fromCommit, req.opts.toCommit>>, "summary")
          [] req.pc = "summary" ->
                IF ~last.ok THEN caught(req, gitErrorMessage(last))
                ELSE awaitGit(req, g, "diff",
                              <<req.opts.fromCommit, req.opts.toCommit>>, "diff")
          [] req.pc = "diff" ->
                IF ~last.ok THEN caught(req, gitErrorMessage(last))
                ELSE enterAnalyzeDiff(req)
          [] req.pc \in {"analyze", "result"} -> afterAwait(req, Analyses[lastCall(req).repo])

\* handleReviewBranches and reviewBranches up to the first await
startReviewBranches(req, g) ==
    LET opts == [NoReviewOptions EXCEPT
                    !.sourceBranch = req.args.source_branch,
                    !.targetBranch = req.args.target_branch,
                    !.repositoryPath = orDefault(req.args.repository_path, ".")]
    IN  IF ~req.args.present
        THEN [req |-> caught(req, destructureError("source_branch")), git |-> g]
        ELSE IF ~truthy(opts.sourceBranch)
        THEN [req |-> caught([req EXCEPT !.opts = opts], "sourceBranch is required"),
              git |-> g]
        ELSE IF ~truthy(opts.targetBranch)
        THEN [req |-> awaitGit([req EXCEPT !.opts = opts], opts.repositoryPath,
                               "branch", <<>>, "branch"),
              git |-> opts.repositoryPath]
        ELSE [req |-> awaitGit([req EXCEPT !.opts = opts], opts.repositoryPath,
                               "show", <<opts.sourceBranch>>, "show1"),
              git |-> opts.repositoryPath]

\* reviewBranches from the await it stands at to the next one, or to its end
resumeReviewBranches(req, g) ==
    LET last == lastCall(req)
        failed == caught(req, "Invalid branch reference: Error: " \o gitErrorMessage(last))
    IN  CASE req.pc = "branch" ->
                awaitGit([req EXCEPT !.opts.targetBranch =
                              IF "origin/main" \in RemoteBranches(last.repo)
                              THEN "origin/main" ELSE "origin/master"],
                         g, "show", <<req.opts.sourceBranch>>, "show1")
          [] req.pc = "show1" ->
                IF ~last.ok THEN failed
                ELSE awaitGit(req, g, "show", <<req.opts.targetBranch>>, "show2")
          [] req.pc = "show2" ->
                IF ~last.ok THEN failed
                ELSE awaitGit(req, g, "diffSummary",
                              <<req.opts.targetBranch, req.opts.sourceBranch>>, "summary")
          [] req.pc = "summary" ->
                IF ~last.ok THEN failed
                ELSE awaitGit(req, g, "diff",
                              <<req.opts.targetBranch, req.opts.sourceBranch>>, "diff")
          [] req.pc = "diff" ->
                IF ~last.ok THEN failed
                ELSE enterAnalyzeDiff(req)
          [] req.pc \in {"analyze", "result"} -> afterAwait(req, Analyses[lastCall(req).repo])

\* JSON.stringify(templates, null, 2)
RECURSIVE jsonEntries(_, _)
jsonEntries(list, k) ==
    IF k > Len(list) THEN ""
    ELSE "  {\n    \"name\": \"" \o list[k].name \o "\",\n    \"description\": \""
         \o list[k].description \o "\"\n  }"
         \o (IF k < Len(list) THEN ",\n" ELSE "\n") \o jsonEntries(list, k + 1)

jsonStringify(list) == IF list = <<>> THEN "[]" ELSE "[\n" \o jsonEntries(list, 1) \o "]"

handleListTemplates(req) == returned_text(req, jsonStringify(listTemplates))

handleGetTemplate(req, store) ==
    LET template == getTemplate(store, req.args.template_name)
    IN  IF ~req.args.present THEN caught(req, destructureError("template_name"))
        ELSE returned_text(req,
                 IF truthy(template) THEN template
                 ELSE "Template \"" \o (IF req.args.template_name = undefined THEN "undefined"
                                        ELSE req.args.template_name) \o "\" not found")

ToolNames == {"review_commits", "review_branches", "list_review_templates",
              "get_review_template"}

\* the pipeline at rest
PipelineIdle ==
    /\ snippet = NoSnippet
    /\ awaited = NoAwaited
    /\ diff = <<>>
    /\ options = NoOptions
    /\ pc = "idle"
    /\ hunks = <<>>
    /\ hunkIdx = 0
    /\ lineIdx = 0
    /\ cursor = InitCursor
    /\ files = <<>>
    /\ filteredFiles = <<>>
    /\ fileIdx = 0
    /\ issues = <<>>
    /\ totals = [added |-> 0, removed |-> 0]
    /\ result = NoResult

pipelineState == <<diff, options, pc, hunks, hunkIdx, lineIdx, cursor, files,
                   filteredFiles, fileIdx, issues, totals, result>>

-----------------------------------------------------------------------------
(* The server as a process: the tool calls in flight, interleaved at the   *)
(* awaits of their handlers; one CodeReviewer serves them all.             *)

MaxRequests == 2      \* tool calls in flight at a time

Args == [NoArgs EXCEPT !.present = TRUE]

RequestChoices ==
    {Request("review_commits", [Args EXCEPT !.from_commit = "v1"]),
     Request("review_commits", [Args EXCEPT !.from_commit = "v1", !.to_commit = "v2",
                                            !.repository_path = OtherRepo]),
     Request("review_commits", [Args EXCEPT !.from_commit = "v0", !.to_commit = "v1"]),
     Request("review_commits", [Args EXCEPT !.from_commit = "v1", !.to_commit = "v9"]),
     Request("review_commits", [Args EXCEPT !.to_commit = "v1"]),
     Request("review_branches", [Args EXCEPT !.source_branch = "topic",
                                             !.repository_path = OtherRepo]),
     Request("review_branches", [Args EXCEPT !.source_branch = "feature",
                                             !.target_branch = "v1"]),
     Request("review_branches", [Args EXCEPT !.target_branch = "v1"]),
     Request("get_review_template", [Args EXCEPT !.template_name = "security"]),
     Request("get_review_template", [Args EXCEPT !.template_name = "constructor"]),
     Request("get_review_template", Args),
     Request("get_review_template", NoArgs),
     Request("list_review_templates", NoArgs),
     Request("deploy", Args)}

InitServer ==
    /\ PipelineIdle
    /\ git = NoGit
    /\ requests \in SeqsUpTo(RequestChoices, MaxRequests)
    /\ templates = InitialTemplates
    /\ returned = NoReturn

Pending(i, tool) == requests[i].pc = "pending" /\ requests[i].tool = tool

Awaiting(i, tool) ==
    /\ requests[i].tool = tool
    /\ requests[i].pc \in {"branch", "show1", "show2", "summary", "diff", "analyze", "result"}

\* default: throw new Error(`Unknown tool: ${name}`)
CallUnknownTool ==
    \E i \in 1..Len(requests) :
        /\ requests[i].pc = "pending" /\ requests[i].tool \notin ToolNames
        /\ requests' = [requests EXCEPT
                           ![i] = caught(@, "Unknown tool: " \o requests[i].tool)]
        /\ UNCHANGED <<pipelineState, snippet, awaited, git, templates, returned>>

CallListTemplates ==
    \E i \in 1..Len(requests) :
        /\ Pending(i, "list_review_templates")
        /\ requests' = [requests EXCEPT ![i] = handleListTemplates(@)]
        /\ UNCHANGED <<pipelineState, snippet, awaited, git, templates, returned>>

CallGetTemplate ==
    \E i \in 1..Len(requests) :
        /\ Pending(i, "get_review_template")
        /\ requests' = [requests EXCEPT ![i] = handleGetTemplate(@, templates)]
        /\ UNCHANGED <<pipelineState, snippet, awaited, git, templates, returned>>

CallReviewCommits ==
    \E i \in 1..Len(requests) :
        /\ Pending(i, "review_commits")
        /\ requests' = [requests EXCEPT ![i] = startReviewCommits(@, git).req]
        /\ git' = startReviewCommits(requests[i], git).git
        /\ UNCHANGED <<pipelineState, snippet, awaited, templates, returned>>

ResumeReviewCommits ==
    \E i \in 1..Len(requests) :
        /\ Awaiting(i, "review_commits")
        /\ requests' = [requests EXCEPT ![i] = resumeReviewCommits(@, git)]
        /\ UNCHANGED <<pipelineState, snippet, awaited, git, templates, returned>>

CallReviewBranches ==
    \E i \in 1..Len(requests) :
        /\ Pending(i, "review_branches")
        /\ requests' = [requests EXCEPT ![i] = startReviewBranches(@, git).req]
        /\ git' = startReviewBranches(requests[i], git).git
        /\ UNCHANGED <<pipelineState, snippet, awaited, templates, returned>>

ResumeReviewBranches ==
    \E i \in 1..Len(requests) :
        /\ Awaiting(i, "review_branches")
        /\ requests' = [requests EXCEPT ![i] = resumeReviewBranches(@, git)]
        /\ UNCHANGED <<pipelineState, snippet, awaited, git, templates, returned>>

NextServer ==
    \/ CallUnknownTool
    \/ CallListTemplates
    \/ CallGetTemplate
    \/ CallReviewCommits
    \/ ResumeReviewCommits
    \/ CallReviewBranches
    \/ ResumeReviewBranches

SpecServer == InitServer /\ [][NextServer]_vars

-----------------------------------------------------------------------------
(* The template store as a process: calls of its five methods, in any      *)
(* order, with names and prompts drawn from small sets.                    *)

StoredNames == {"comprehensive", "security", "custom"}
AddedNames == StoredNames \cup {"__proto__"}
LookupNames == StoredNames \cup {"missing", "constructor", "toString", "__proto__"}
Prompts == {"", "Review the tests."}

InitTemplates == PipelineIdle /\ ServerIdle

AddTemplate ==
    \E name \in AddedNames, prompt \in Prompts :
        /\ templates' = addTemplate(templates, name, prompt)
        /\ returned' = [op |-> "addTemplate", name |-> name, value |-> undefined]
        /\ UNCHANGED <<pipelineState, snippet, awaited, git, requests>>

RemoveTemplate ==
    \E name \in LookupNames :
        /\ templates' = removeTemplate(templates, name).store
        /\ returned' = [op |-> "removeTemplate", name |-> name,
                        value |-> removeTemplate(templates, name).value]
        /\ UNCHANGED <<pipelineState, snippet, awaited, git, requests>>

UpdateTemplate ==
    \E name \in LookupNames, prompt \in Prompts :
        /\ templates' = updateTemplate(templates, name, prompt).store
        /\ returned' = [op |-> "updateTemplate", name |-> name,
                        value |-> updateTemplate(templates, name, prompt).value]
        /\ UNCHANGED <<pipelineState, snippet, awaited, git, requests>>

GetTemplate ==
    \E name \in LookupNames :
        /\ returned' = [op |-> "getTemplate", name |-> name,
                        value |-> getTemplate(templates, name)]
        /\ UNCHANGED <<pipelineState, snippet, awaited, git, requests, templates>>

ListTemplates ==
    /\ returned' = [op |-> "listTemplates", name |-> "", value |-> listTemplates]
    /\ UNCHANGED <<pipelineState, snippet, awaited, git, requests, templates>>

NextTemplates ==
    \/ AddTemplate
    \/ RemoveTemplate
    \/ UpdateTemplate
    \/ GetTemplate
    \/ ListTemplates

SpecTemplates == InitTemplates /\ [][NextTemplates]_vars

\* C17: a lookup of a name the store does not hold returns the text of the
\* "comprehensive" template, never an absent value
C17_UnknownNameGetsDefault ==
    (returned.op = "getTemplate" /\ returned.name \notin DOMAIN templates) =>
        /\ returned.value # undefined
        /\ returned.value = (IF "comprehensive" \in DOMAIN templates
                             THEN templates["comprehensive"]
                             ELSE InitialTemplates["comprehensive"])

\* C18: the names listTemplates returns are the names the store holds
C18_ListIsTheStore ==
    returned.op = "listTemplates" =>
        {returned.value[k].name : k \in 1..Len(returned.value)} = DOMAIN templates

-----------------------------------------------------------------------------
(* The tool calls, as the specification states them.                       *)

IsReview(req) == req.tool \in {"review_commits", "review_branches"}

\* the repository a review request names
OwnRepo(req) == orDefault(req.args.repository_path, ".")

\* a request handled with no other request in flight
RECURSIVE Alone(_)
Alone(req) ==
    IF req.pc = "done" THEN req
    ELSE IF req.pc = "pending"
    THEN Alone(IF req.tool = "review_commits" THEN startReviewCommits(req, NoGit).req
               ELSE startReviewBranches(req, NoGit).req)
    ELSE Alone(IF req.tool = "review_commits" THEN resumeReviewCommits(req, OwnRepo(req))
               ELSE resumeReviewBranches(req, OwnRepo(req)))

\* C11: every VCS call of a review request is made on the repository the
\* request names, and its response is the one it gets when handled alone
C11_RequestsAreIndependent ==
    \A i \in 1..Len(requests) :
        IsReview(requests[i]) =>
            /\ \A k \in 1..Len(requests[i].calls) :
                  requests[i].calls[k].repo = OwnRepo(requests[i])
            /\ requests[i].pc = "done" =>
                  requests[i].response
                      = Alone(Request(requests[i].tool, requests[i].args)).response

RequiredArgument(tool) ==
    CASE tool = "review_commits" -> "from_commit"
      [] tool = "review_branches" -> "source_branch"
      [] tool = "get_review_template" -> "template_name"
      [] OTHER -> ""

MissingRequired(req) ==
    /\ RequiredArgument(req.tool) # ""
    /\ \/ ~req.args.present
       \/ req.args[RequiredArgument(req.tool)] = undefined

IsErrorResponse(response) ==
    /\ Len(response.content) = 1
    /\ response.content[1].type = "text"
    /\ startsWith(response.content[1].text, "Error: ")

\* C19: a tool call with an unknown name, without a required argument or
\* whose handler threw is answered by one text item that starts "Error: "
C19_FailuresBecomeErrorText ==
    \A i \in 1..Len(requests) :
        (/\ requests[i].pc = "done"
         /\ \/ requests[i].tool \notin ToolNames
            \/ MissingRequired(requests[i])
            \/ requests[i].thrown) =>
            IsErrorResponse(requests[i].response)

\* the calls that validate a ref
Validations(req) == {k \in 1..Len(req.calls) : req.calls[k].op = "show"}

\* C20: a review without its required ref, or with a ref whose validation
\* failed, ends in an error and no report; the diff is requested only after
\* two validations, both successful
C20_ValidatedBeforeDiff ==
    \A i \in 1..Len(requests) :
        IsReview(requests[i]) =>
            LET req == requests[i]
            IN  /\ (/\ req.pc = "done"
                    /\ \/ MissingRequired(req)
                       \/ \E k \in Validations(req) : ~req.calls[k].ok) =>
                       /\ IsErrorResponse(req.response)
                       /\ ~includes(req.response.content[1].text, "# Code Review Report")
                /\ \A k \in 1..Len(req.calls) :
                      (\E v \in Validations(req) : ~req.calls[v].ok) =>
                          req.calls[k].op \notin {"diffSummary", "diff"}
                /\ \A k \in 1..Len(req.calls) :
                      req.calls[k].op = "diff" =>
                          /\ Cardinality({v \in Validations(req) : v < k}) = 2
                          /\ \A v \in Validations(req) : req.calls[v].ok

\* a review with no other request in flight whose first ref was validated
\* and whose second ref failed the validation
C20_Witness ==
    /\ Len(requests) = 1
    /\ requests[1].pc = "done"
    /\ Len(requests[1].calls) = 2
    /\ requests[1].calls[1].ok /\ ~requests[1].calls[2].ok
    /\ IsErrorResponse(requests[1].response)

-----------------------------------------------------------------------------
(* The review prompt: analyzeDiff on the diffs of one file, with and       *)
(* without filters, under a prompt that is absent, the name of a template  *)
(* or a text of the caller.                                                *)

PromptChoices == {undefined, "security", "Check the tests only."}

PromptFilters ==
    {[fileExtensions |-> Undefined, excludePatterns |-> Undefined],
     [fileExtensions |-> Some(<<".ts", ".js">>), excludePatterns |-> Some(<<"test">>)]}

PromptOptions ==
    {[fileExtensions |-> f.fileExtensions, excludePatterns |-> f.excludePatterns,
      reviewPrompt |-> p] : <<f, p>> \in PromptFilters \X PromptChoices}

InitPrompt ==
    /\ diff \in {b \o <<"">> : b \in DetectBlocks}
    /\ options \in PromptOptions
    /\ pc = "analyze"
    /\ hunks = <<>>
    /\ hunkIdx = 0
    /\ lineIdx = 0
    /\ cursor = InitCursor
    /\ files = <<>>
    /\ filteredFiles = <<>>
    /\ fileIdx = 0
    /\ issues = <<>>
    /\ totals = [added |-> 0, removed |-> 0]
    /\ result = NoResult
    /\ ServerIdle
    /\ snippet = NoSnippet
    /\ awaited = NoAwaited

SpecPrompt == InitPrompt /\ [][Next]_vars

\* C21: the result of a run equals the result of the run on the same diff
\* and the same filters under any other review prompt: absent, the name of a
\* template, or a text of the caller
C21_PromptHasNoInfluence ==
    pc = "done" =>
        \A p \in PromptChoices :
            analyzeDiff(diff, [options EXCEPT !.reviewPrompt = p]) = result

\* a finished run under a prompt of the caller that found issues
C21_Witness ==
    /\ pc = "done"
    /\ options.reviewPrompt = "Check the tests only."
    /\ resolvePrompt(options.reviewPrompt) # resolvePrompt(undefined)
    /\ result.issues # <<>>

-----------------------------------------------------------------------------
(* The protocol of the line cursor, as the specification states it, under  *)
(* SpecParse.  The first line of a block is the rest of its "diff --git"   *)
(* line; the protocol is read on the lines after it.                       *)

\* the kind of a line of a file block, by its first characters
ProtocolKind(line) ==
    IF IsHunkHead(line) THEN "header"
    ELSE IF \/ startsWith(line, "index") \/ startsWith(line, "diff")
            \/ startsWith(line, "+++") \/ startsWith(line, "---")
            \/ startsWith(line, "\\") \/ startsWith(line, "@@")
    THEN "metadata"
    ELSE IF startsWith(line, "+") THEN "addition"
    ELSE IF startsWith(line, "-") THEN "deletion"
    ELSE IF line # "" THEN "context"
    ELSE "empty"

\* a step of the scan over a line after the first line of the block
ScansBodyLine == pc = "lines" /\ lineIdx >= 2 /\ lineIdx' = lineIdx + 1

\* the step emitted nothing
EmitsNothing == cursor'.changes = cursor.changes

\* the step emitted one LineChange of this type that carries this number
EmitsOne(type, number) ==
    /\ Len(cursor'.changes) = Len(cursor.changes) + 1
    /\ SubSeq(cursor'.changes, 1, Len(cursor.changes)) = cursor.changes
    /\ Last(cursor'.changes).type = type
    /\ Last(cursor'.changes).lineNumber = number

\* the step moved the cursor by these amounts
Advances(byOld, byNew) ==
    /\ cursor'.currentLineOld = cursor.currentLineOld + byOld
    /\ cursor'.currentLineNew = cursor.currentLineNew + byNew

\* C22: a hunk header sets the cursor to its two start numbers and emits
\* nothing; an added line is emitted with the new-file number and advances
\* it alone; a removed line is emitted with the old-file number and advances
\* it alone; any other non-empty line that is not a metadata line is emitted
\* as context with the old-file number and advances both; a metadata line
\* emits nothing and leaves the cursor where it is
C22_CursorProtocol ==
    [][ScansBodyLine =>
          LET line == CurBlock[lineIdx]
              kind == ProtocolKind(line)
          IN  CASE kind = "header" ->
                      /\ EmitsNothing
                      /\ cursor'.currentLineOld = DeclaredOld(line).start
                      /\ cursor'.currentLineNew = DeclaredNew(line).start
                [] kind = "addition" ->
                      EmitsOne("addition", cursor.currentLineNew) /\ Advances(0, 1)
                [] kind = "deletion" ->
                      EmitsOne("deletion", cursor.currentLineOld) /\ Advances(1, 0)
                [] kind = "context" ->
                      EmitsOne("context", cursor.currentLineOld) /\ Advances(1, 1)
                [] kind = "metadata" -> EmitsNothing /\ Advances(0, 0)
                [] OTHER -> TRUE]_vars

-----------------------------------------------------------------------------
(* getCodeContext on its own: after parseDiff, the context of an added     *)
(* line of a parsed file is built for a window size the detectors use.     *)

\* the largest window size a detector passes
MaxWindow == 4

\* a file changed in two places far apart
GapBlock ==
    <<"diff --git a/src/gap.ts b/src/gap.ts", "index 1a2b3c4..5d6e7f8 100644",
      "--- a/src/gap.ts", "+++ b/src/gap.ts">>
    \o HunkText(1, 1, <<"+one();">>)
    \o HunkText(20, 21, <<" ctx();", "+two();", "+three();">>)

\* a file whose removed and added lines share line numbers
TieBlock ==
    ReviewBlock("src/tie.ts", <<"-a();", "-b();", "+c();", "+d();", "+e();", " f();">>)

ContextBlocks ==
    {GapBlock, TieBlock, AppBlock, DbBlock, TestBlock, JsDocBlock, LoopPyBlock,
     SecretAfterQuoteBlock, MixedBlock, MakefileBlock}

ContextInputs ==
    {b \o <<"">> : b \in ContextBlocks} \cup {GapBlock \o TieBlock \o <<"">>}

InitContext ==
    /\ diff \in ContextInputs
    /\ options = NoOptions
    /\ pc = "analyze"
    /\ hunks = <<>>
    /\ hunkIdx = 0
    /\ lineIdx = 0
    /\ cursor = InitCursor
    /\ files = <<>>
    /\ filteredFiles = <<>>
    /\ fileIdx = 0
    /\ issues = <<>>
    /\ totals = [added |-> 0, removed |-> 0]
    /\ result = NoResult
    /\ ServerIdle
    /\ snippet = NoSnippet
    /\ awaited = NoAwaited

\* this.getCodeContext(fileChange, line.lineNumber, n) for an added line
GetCodeContext ==
    /\ pc = "files"
    /\ \E k \in 1..Len(filteredFiles) :
          \E line \in AddedChanges(filteredFiles[k]) : \E size \in 1..MaxWindow :
              snippet' = [file |-> k, target |-> line.lineNumber, content |-> line.content,
                          size |-> size,
                          text |-> getCodeContext(filteredFiles[k], line.lineNumber, size)]
    /\ UNCHANGED <<diff, options, pc, parseVars, files, filteredFiles, fileIdx, issues,
                   totals, result, serverVars, awaited>>

NextContext ==
    \/ ParseAndFilter
    \/ GetCodeContext

SpecContext == InitContext /\ [][NextContext]_vars

-----------------------------------------------------------------------------
(* The context window, as the specification states it.  The text of a      *)
(* window is read back into the lines it shows.                            *)

\* the lines a snippet shows: marker, line number, type and content of each
ShownLines(text) ==
    LET rows == splitOn(text, "\n")
    IN  [k \in 1..Len(rows) |->
            [marked |-> Slice(rows[k], 1, 2) = "> ",
             lineNumber |-> parseInt(trimStart(Slice(rows[k], 3, 5))),
             type |-> IF At(rows[k], 6) = "+" THEN "addition"
                      ELSE IF At(rows[k], 6) = "-" THEN "deletion" ELSE "context",
             content |-> Slice(rows[k], 8, Len(rows[k]))]]

\* how many of the lines of seq carry the number v
CountAt(seq, v) == Cardinality({i \in 1..Len(seq) : seq[i].lineNumber = v})

\* how many of the lines of seq carry a number from lo to hi
CountIn(seq, lo, hi) ==
    Cardinality({i \in 1..Len(seq) : seq[i].lineNumber >= lo /\ seq[i].lineNumber <= hi})

\* the shown lines are recorded changes; one of them carries the number of
\* the flagged line, and it is the flagged line: an addition with its
\* content, shown with the marker.  Of the recorded changes numbered
\* lo..target-1 the window shows the n closest to target, or all of them
\* when they are fewer, and the same of those numbered target+1..hi
IsWindow(shown, recorded, flagged, n, lo, hi) ==
    LET target == flagged.lineNumber
        loShown == CHOOSE v \in (lo - 1)..target :
                       /\ CountIn(shown, lo, v) = 0
                       /\ \A w \in (lo - 1)..target : CountIn(shown, lo, w) = 0 => w <= v
        hiShown == CHOOSE v \in target..(hi + 1) :
                       /\ CountIn(shown, v, hi) = 0
                       /\ \A w \in target..(hi + 1) : CountIn(shown, w, hi) = 0 => w >= v
    IN  /\ \A i \in 1..Len(shown) :
              /\ shown[i].lineNumber >= lo /\ shown[i].lineNumber <= hi
              /\ \E j \in 1..Len(recorded) :
                    /\ recorded[j].lineNumber = shown[i].lineNumber
                    /\ recorded[j].type = shown[i].type
                    /\ recorded[j].content = shown[i].content
        /\ CountAt(shown, target) = 1
        /\ \A i \in 1..Len(shown) :
              shown[i].lineNumber = target =>
                  /\ shown[i].marked
                  /\ shown[i].type = "addition"
                  /\ shown[i].content = flagged.content
        /\ CountIn(shown, lo, target - 1) = Min(n, CountIn(recorded, lo, target - 1))
        /\ CountIn(shown, target + 1, hi) = Min(n, CountIn(recorded, target + 1, hi))
        /\ \A v \in (loShown + 2)..(target - 1) : CountAt(shown, v) = CountAt(recorded, v)
        /\ \A v \in (target + 1)..(hiShown - 2) : CountAt(shown, v) = CountAt(recorded, v)

\* the line getCodeContext was called for
Flagged == [lineNumber |-> snippet.target, content |-> snippet.content]

\* no other recorded change of the file carries the number of the flagged line
AloneAtNumber == CountAt(filteredFiles[snippet.file].changes, snippet.target) = 1

\* the least and the greatest line number of the recorded changes
LeastNumber(recorded) ==
    CHOOSE v \in {recorded[i].lineNumber : i \in 1..Len(recorded)} :
        \A i \in 1..Len(recorded) : v <= recorded[i].lineNumber

GreatestNumber(recorded) ==
    CHOOSE v \in {recorded[i].lineNumber : i \in 1..Len(recorded)} :
        \A i \in 1..Len(recorded) : v >= recorded[i].lineNumber

ContextBuilt == snippet # NoSnippet

\* flagged line
FlaggedLines(text) == {m \in 1..Len(ShownLines(text)) : ShownLines(text)[m].marked}

\* the issues whose snippet is the context of their line; the snippet of an
\* incomplete-JSDoc issue is the text of the JSDoc block
LineAnchored(issue) == issue.title # "Incomplete JSDoc"

\* the mask of the secret rule rewrites what the snippet shows between
\* quotes, line breaks and markers included; its issues are left aside
Masked(issue) == issue.title = "Potential hardcoded secret"

\* C24: in the snippet of an issue, the line shown with the marker of the
\* flagged line is the added line the issue is anchored at: an addition,
\* with its content, also when a removed or an unchanged line of the file
\* carries the same number
C24_MarkedLineIsTheAddedLine ==
    [][Analyzes =>
          \A i \in 1..Len(Produced) :
              (LineAnchored(Produced[i]) /\ ~Masked(Produced[i])) =>
                  LET shown == ShownLines(Produced[i].codeSnippet)
                      marked == FlaggedLines(Produced[i].codeSnippet)
                  IN  /\ marked # {}
                      /\ \A m \in marked :
                            /\ shown[m].type = "addition"
                            /\ shown[m].lineNumber = Produced[i].line
                            /\ \E c \in AddedChanges(Analyzed) :
                                  /\ c.lineNumber = Produced[i].line
                                  /\ c.content = shown[m].content]_vars

----------------------------------------------------------------------------
\* The assignment-in-conditional rule

\* position p of s holds a "=" that is no part of "==" or "==="
LoneEquals(s, p) == At(s, p) = "=" /\ At(s, p - 1) # "=" /\ At(s, p + 1) # "="

\* position j of s holds the "(" of an "if(", white space allowed between
IfOpensAt(s, j) ==
    /\ At(s, j) = "("
    /\ \E i \in 1..(j - 2) :
          /\ SubSeq(s, i, i + 1) = "if"
          /\ \A k \in (i + 2)..(j - 1) : IsSpace(At(s, k))

\* the line has an if( whose condition contains a lone "="
AssignsInCondition(s) ==
    \E j \in 1..Len(s) : \E p \in (j + 1)..Len(s) :
        /\ IfOpensAt(s, j)
        /\ LoneEquals(s, p)
        /\ \A k \in (j + 1)..(p - 1) : At(s, k) # ")"

IssuesAt(iss, title, number) ==
    Cardinality({i \in 1..Len(iss) : iss[i].title = title /\ iss[i].line = number})

\* C25: the analysis of a file yields the major issue "Assignment in
\* conditional" at an added line exactly when the line has an if( whose
\* condition contains a "=" that is no part of "==" or "===": one issue
\* for "if (x = 5) {", none for "if (x == 5) {" or "if (x === 5) {"
C25_AssignmentInConditional ==
    [][Analyzes =>
          \A c \in AddedChanges(Analyzed) :
              /\ IssuesAt(Produced, "Assignment in conditional", c.lineNumber)
                     = (IF AssignsInCondition(c.content) THEN 1 ELSE 0)
              /\ \A i \in 1..Len(Produced) :
                     Produced[i].title = "Assignment in conditional"
                         => Produced[i].severity = "major"]_vars

----------------------------------------------------------------------------
\* The unchecked-property-access rule

\* a character of a word (\w)
IsWordChar(c) == c \in WordChars

\* the line has an access obj.prop: a "." between two word characters
AccessesProperty(s) ==
    \E i \in 2..(Len(s) - 1) :
        At(s, i) = "." /\ IsWordChar(At(s, i - 1)) /\ IsWordChar(At(s, i + 1))

\* the line holds a guard: an if(, a "&&", a try or a catch; a check
\* against null or undefined is an if( or an operand of "&&"
HoldsGuard(s) ==
    \/ \E j \in 1..Len(s) : IfOpensAt(s, j)
    \/ includes(s, "&&")
    \/ includes(s, "try")
    \/ includes(s, "catch")

\* a recorded line of the file within 3 line numbers of the number holds a guard
GuardNearby(fileChange, number) ==
    \E i \in 1..Len(fileChange.changes) :
        /\ fileChange.changes[i].lineNumber \in (number - 3)..(number + 3)
        /\ HoldsGuard(fileChange.changes[i].content)

\* C26: the analysis of a file yields no issue "Potential null/undefined
\* access" at an added line when a recorded line of the file within 3 line
\* numbers before or after it holds a null/undefined check, a "&&", an
\* if( or a try/catch, and none at a line without an access obj.prop or
\* with optional chaining
C26_GuardNearbySuppresses ==
    [][Analyzes =>
          \A c \in AddedChanges(Analyzed) :
              (\/ GuardNearby(Analyzed, c.lineNumber)
               \/ ~AccessesProperty(c.content)
               \/ includes(c.content, "?."))
                  => IssuesAt(Produced, "Potential null/undefined access", c.lineNumber) = 0]_vars

----------------------------------------------------------------------------
\* The code-after-return rule

\* the change at position i of the file is an added return line and the
\* change after it is an added line that is more than a closing brace
ReturnThenCode(fileChange, i) ==
    /\ i < Len(fileChange.changes)
    /\ fileChange.changes[i].type = "addition"
    /\ includes(fileChange.changes[i].content, "return")
    /\ fileChange.changes[i + 1].type = "addition"
    /\ trim(fileChange.changes[i + 1].content) # "}"

\* C27: when an added return line of a file is followed by a further added
\* line that is not just a closing brace, the analysis of the file yields a
\* minor issue "Potentially unreachable code" at the return line
C27_CodeAfterReturn ==
    [][Analyzes =>
          \A i \in 1..Len(Analyzed.changes) :
              ReturnThenCode(Analyzed, i) =>
                  \E k \in 1..Len(Produced) :
                      /\ Produced[k].title = "Potentially unreachable code"
                      /\ Produced[k].severity = "minor"
                      /\ Produced[k].line = Analyzed.changes[i].lineNumber]_vars

----------------------------------------------------------------------------
\* The existence checks of the template store

\* the step is a call of the method, for some name
Calls(method) == returned'.op = method

\* the store after the step is the store before it without the name
Removed(name) ==
    /\ DOMAIN templates' = DOMAIN templates \ {name}
    /\ \A n \in DOMAIN templates' : templates'[n] = templates[n]

\* the store after the step is the store before it with a new text for the name
Updated(name) ==
    /\ DOMAIN templates' = DOMAIN templates
    /\ templates'[name] \in Prompts
    /\ \A n \in DOMAIN templates \ {name} : templates'[n] = templates[n]

\* C28: removeTemplate(name) and updateTemplate(name, text) return true and
\* take effect exactly when the store holds the name, whatever its text,
\* the empty text included; otherwise they return false and leave the store
\* as it is; after a removeTemplate that returned true the store no longer
\* holds the name (checked on every step that changes the store, the method
\* called or the name it is called with)
C28_GuardedByExistence ==
    [][/\ Calls("removeTemplate") =>
            IF returned'.name \in DOMAIN templates
            THEN returned'.value = TRUE /\ Removed(returned'.name)
            ELSE returned'.value = FALSE /\ templates' = templates
       /\ Calls("updateTemplate") =>
            IF returned'.name \in DOMAIN templates
            THEN returned'.value = TRUE /\ Updated(returned'.name)
            ELSE returned'.value = FALSE /\ templates' = templates
      ]_<<templates, returned.op, returned.name>>

====
